---- MODULE Spec2Model ----
(***************************************************************************)
(* Fracta core: the Index orchestrator (fracta-index), the SearchIndex     *)
(* writer, the Location path-safety / CRUD surface and the atomic writer   *)
(* (fracta-vfs), modelled as state machines.                               *)
(*                                                                         *)
(* Time is counted in ticks; TicksPerSecond ticks make one second, so that *)
(* sub-second differences between modification times are representable.    *)
(***************************************************************************)
EXTENDS Integers, Sequences, FiniteSets, TLC

\* -------------------------------------------------------- program constants
\* lib.rs:173  "(entry_mtime - existing.mtime).num_seconds().abs() > 1"
MtimeToleranceSecs == 1

\* ------------------------------------------------------------------ bounds
TicksPerSecond == 2
MaxTime == 2 * TicksPerSecond
MaxContent == 2
MaxDiskOps == 2
MaxRuns == 2
MaxDataLen == 2
MaxByte == 2
MaxVfsOps == 1
MaxLinkHops == 2
MaxSxCalls == 6
MaxEvents == 3
MaxIds == 3
MaxStoreCalls == 4
MaxBlocks == 2
MaxRules == 2
MaxThreads == 2


\* ------------------------------------------------------------------ helpers
Upsert(f, k, v) == [x \in (DOMAIN f) \cup {k} |-> IF x = k THEN v ELSE f[x]]

Restrict(f, S) == [x \in S |-> f[x]]

Abs(i) == IF i < 0 THEN -i ELSE i

Perms(S) == {s \in [1..Cardinality(S) -> S] : \A i, j \in 1..Cardinality(S) : s[i] = s[j] => i = j}

EmptyMap == [x \in {} |-> 0]

\* ---------------------------------------------------------------- universe
\* Relative paths of the files that may exist in Managed scope, as
\* <<stem, extension>>.
Paths == {<<"a", "md">>, <<"c", "txt">>}

Contents == 1..MaxContent

\* Modification times and clock readings, in ticks.  CoarseTimes are whole
\* seconds far enough apart to be outside the freshness tolerance.
Times == 0..MaxTime

CoarseTimes == {0, (MtimeToleranceSecs + 1) * TicksPerSecond}

VARIABLES
    \* --- filesystem as seen by Location::walk from the root
    disk,        \* rel path -> [mtime, readable, content] for files on disk
    hasMtime,    \* whether metadata.modified() is available on the platform
    fkOn,        \* whether the SQLite build enforces foreign keys
    \* --- Index
    files,       \* MetadataStore table files:    path -> FileEntry
    metadata,    \* MetadataStore table metadata: path -> FileMetadata
    committed,   \* SearchIndex documents visible to the reader: path -> doc
    pending,     \* documents a commit of the writer would publish
    writer,      \* SearchIndex.writer: "none" | "some"
    \* --- observation of the last operation
    last,        \* record describing the last operation and its outcome
    \* --- history
    everIndexed, \* paths indexed by a completed build of this Index
    baseline,    \* first observation after build_full on a fresh cache since
                 \* the disk last changed, and the number of such builds
    chain,       \* progress of build_full; mutation; update_incremental
    diskOps,     \* number of disk mutations so far
    runs,        \* number of build runs so far
    \* --- atomic writer
    aw,          \* the call of atomic_write in progress and the files it touches
    \* --- Location
    fs,          \* the filesystem: node path -> [kind, target, content]
    vres,        \* the last Location call: [op, paths, data, err]
    vops,        \* number of Location calls so far
    loc,         \* the Location object: [managed, ignore_rules]
    qres,        \* the last scope / listing query: [op, path, opts, err, out]
    \* --- SearchIndex, document by document
    sx,          \* the index, its writer and its reader, and the last call
    \* --- LocationWatcher
    wt,          \* the event queue, its mutex and the threads that use it
    \* --- Location identity
    ident,       \* settings.json, the Location objects and the last call
    \* --- MetadataStore, call by call
    ms,          \* unparseable mtime columns, the last call and the call count
    \* --- Document
    note,        \* a parsed Document and what title() returned for it
    \* --- binding layer
    ffi          \* the object mutexes and the threads calling through them

indexVars == <<disk, hasMtime, fkOn, files, metadata, committed, pending,
               writer, last, everIndexed, baseline, chain, diskOps, runs>>

vfsVars == <<fs, vres, vops>>

queryVars == <<loc, qres>>

otherVars == <<aw, vfsVars, queryVars, sx, wt, ident, ms, note, ffi>>

otherVarsButMs == <<aw, vfsVars, queryVars, sx, wt, ident, note, ffi>>

vars == <<indexVars, otherVars>>

\* ===================================================================
\* fracta-index: MetadataStore
\* ===================================================================

\* metadata.rs:104  INSERT ... ON CONFLICT(path) DO UPDATE
upsert_file(tbl, entry) == Upsert(tbl, entry.path, entry)

\* metadata.rs:127
upsert_metadata(tbl, path, meta) == Upsert(tbl, path, meta)

\* metadata.rs:145  (None when there is no row)
has_file(tbl, path) == path \in DOMAIN tbl

Range(seq) == {seq[i] : i \in 1..Len(seq)}

\* A slip in the temporary table: it is emptied before every insert, so only
\* the last current path survives the comparison.
remove_stale_files_last_only(tbl, current_paths) ==
    IF current_paths = <<>>
    THEN EmptyMap
    ELSE Restrict(tbl, (DOMAIN tbl) \cap {current_paths[Len(current_paths)]})

\* metadata.rs:222  the rows of table files that survive; current_paths is
\* the list of walked relative paths, in walk order.
remove_stale_files(tbl, current_paths) ==
    IF current_paths = <<>>
    THEN EmptyMap
    ELSE Restrict(tbl, (DOMAIN tbl) \cap Range(current_paths))

\* metadata.rs:336-337  m.tags LIKE '%"<tag>%' against the JSON array of tags:
\* the pattern matches where some tag starts with <tag>.  Tags are sequences.
IsPrefix(t, u) == Len(t) <= Len(u) /\ SubSeq(u, 1, Len(t)) = t

\* metadata.rs:314-358  with limit at least the number of rows; area and tag
\* are <<>> for None and <<v>> for Some(v).  LEFT JOIN: a filter on m.* is
\* never true of a files row without a metadata row.
search_by_metadata(tbl, mtbl, area, tag) ==
    {p \in DOMAIN tbl :
        /\ area # <<>> => (p \in DOMAIN mtbl /\ mtbl[p].area = area[1])
        /\ tag # <<>> => (p \in DOMAIN mtbl /\ \E u \in mtbl[p].tags : IsPrefix(tag[1], u))}

\* metadata.rs:87  "REFERENCES files(path) ON DELETE CASCADE": the metadata
\* rows that survive a deletion from files that leaves `remaining`.  The
\* cascade acts only when the SQLite build enforces foreign keys.
cascade_metadata(mtbl, remaining) ==
    IF fkOn THEN Restrict(mtbl, (DOMAIN mtbl) \cap remaining) ELSE mtbl

\* metadata.rs:253
file_count(tbl) == Cardinality(DOMAIN tbl)

\* metadata.rs:261
indexed_count(tbl) == Cardinality({p \in DOMAIN tbl : tbl[p].indexed})

\* ------------------------------------------------------------------
\* MetadataStore, call by call.  The tables are files and metadata; a row of
\* files holds its mtime as the text to_rfc3339 wrote (metadata.rs:115),
\* unless something else wrote the column: ms.unparseable is the set of paths
\* whose mtime column is no RFC 3339 text.

\* Paths as the store sees them: components of a path relative to the root.
StorePaths == {<<"a.md">>, <<"d", "b.md">>}

\* Values of area and tag that carry SQL of their own.
AreaPayload == "'; DROP TABLE files; --"

TagPayload == <<"'", ";", "DELETE FROM files", ";", "--">>

\* A value handed to a statement: a text (area), a tag or a number (limit).
Text(v) == [kind |-> "text", v |-> v]

TagText(v) == [kind |-> "tag", v |-> v]

Number(v) == [kind |-> "number", v |-> v]

carries_sql(value) ==
    \/ value.kind = "text" /\ value.v = AreaPayload
    \/ value.kind = "tag" /\ value.v = TagPayload

StoreTags == {<<"a">>, <<"a", "b">>}

\* FileMetadata values: tags (a set of tags, each a sequence) and area.
MetaRows ==
    {[tags |-> {<<"a", "b">>}, area |-> "library"],
     [tags |-> {<<"a">>}, area |-> "now"],
     [tags |-> {}, area |-> "none"]}

StoreLists == {<<>>} \cup UNION {Perms(S) : S \in (SUBSET StorePaths) \ {{}}}

\* metadata.rs:323-349  the statement under construction: its text, a
\* sequence of fragments [sql, inline] where inline holds the values written
\* into the fragment, and the values bound to its placeholders.
select_paths ==
    [text |-> <<[sql |-> "SELECT f.path FROM files f LEFT JOIN metadata m", inline |-> <<>>]>>,
     params |-> <<>>]

\* The value pasted into the text of the statement.
splice(stmt, fragment, value) ==
    [text |-> Append(stmt.text, [sql |-> fragment, inline |-> <<value>>]),
     params |-> stmt.params]

\* metadata.rs:331-346  sql.push_str(" AND ... ?"); params_vec.push(value)
bind(stmt, fragment, value) ==
    [text |-> Append(stmt.text, [sql |-> fragment, inline |-> <<>>]),
     params |-> Append(stmt.params, value)]

\* metadata.rs:323-349  the statement of search_by_metadata; area and tag are
\* <<>> for None and <<v>> for Some(v).
search_statement(area, tag, limit) ==
    LET s1 == IF area # <<>> THEN bind(select_paths, " AND m.area = ?", Text(area[1]))
              ELSE select_paths
        s2 == IF tag # <<>> THEN bind(s1, " AND m.tags LIKE ?", TagText(tag[1])) ELSE s1
    IN  bind(s2, " ORDER BY f.mtime DESC LIMIT ?", Number(limit))

\* metadata.rs:351-355  prepare and query_map: what running the statement
\* leaves of table files.  Bound values are data; SQL inside the text of the
\* statement is run.
run_statement(stmt, tbl) ==
    IF \E i \in DOMAIN stmt.text :
           \E k \in DOMAIN stmt.text[i].inline : carries_sql(stmt.text[i].inline[k])
    THEN EmptyMap
    ELSE tbl

\* The directory names list_directory is asked for: the root, the folder d,
\* and three names no stored path lies under.
StoreDirs == {<<>>, <<"d">>, <<"D">>, <<"_">>, <<"%">>}

\* metadata.rs:152-154 and 295-297  parse_from_rfc3339(..).unwrap_or_else(|_|
\* Utc::now()): the mtime of the FileEntry built from a row.
row_mtime(tbl, path, unparseable, tnow) ==
    IF path \in unparseable THEN tnow ELSE tbl[path].mtime

\* metadata.rs:145-167  <<>> for None, <<entry>> for Some(entry)
get_file(tbl, path, unparseable, tnow) ==
    IF path \in DOMAIN tbl
    THEN <<[tbl[path] EXCEPT !.mtime = row_mtime(tbl, path, unparseable, tnow)]>>
    ELSE <<>>

\* The characters of a file or directory name.
NameChars ==
    [n \in {"a.md", "b.md", "d", "D", "_", "%"} |->
        CASE n = "a.md" -> <<"a", ".", "m", "d">>
          [] n = "b.md" -> <<"b", ".", "m", "d">>
          [] OTHER -> <<n>>]

\* lib.rs:196-199 / metadata.rs:109  the text of a relative path: its
\* names, joined by '/'.
RECURSIVE path_text(_)
path_text(p) ==
    IF p = <<>> THEN <<>>
    ELSE IF Len(p) = 1 THEN NameChars[p[1]]
    ELSE NameChars[p[1]] \o <<"/">> \o path_text(Tail(p))

\* SQLite folds the case of ASCII letters when LIKE compares them.
fold(c) == IF c = "D" THEN "d" ELSE c

\* metadata.rs:282-283  SQLite's LIKE: '%' stands for any run of characters,
\* '_' for any one character, every other character for itself, ASCII
\* letters compared without regard to case.
RECURSIVE like(_, _)
like(pattern, text) ==
    IF pattern = <<>> THEN text = <<>>
    ELSE IF Head(pattern) = "%"
         THEN like(Tail(pattern), text)
                  \/ (text # <<>> /\ like(pattern, Tail(text)))
    ELSE /\ text # <<>>
         /\ Head(pattern) = "_" \/ fold(Head(pattern)) = fold(Head(text))
         /\ like(Tail(pattern), Tail(text))

\* metadata.rs:272-277  the pattern that is bound to ?1
list_pattern(dir) ==
    IF dir = <<>> THEN <<"%">> ELSE path_text(dir) \o <<"/", "%">>

\* metadata.rs:288-292  the pattern that is bound to ?2
exclude_pattern(dir) ==
    IF dir = <<>> THEN <<"%", "/", "%">> ELSE path_text(dir) \o <<"/", "%", "/", "%">>

\* metadata.rs:271-311  the rows whose path is LIKE the pattern and NOT LIKE
\* the exclude pattern, each rebuilt as by get_file.
store_list_directory(tbl, dir, unparseable, tnow) ==
    {get_file(tbl, p, unparseable, tnow)[1] :
        p \in {q \in DOMAIN tbl :
                  /\ like(list_pattern(dir), path_text(q))
                  /\ ~like(exclude_pattern(dir), path_text(q))}}

MsOpen ==
    [unparseable |-> {},
     obs |-> [op |-> "open", args |-> <<>>, err |-> "Ok", out |-> <<>>],
     n |-> 0]

MsOnly == UNCHANGED <<disk, hasMtime, fkOn, committed, pending, writer, last, everIndexed,
                      baseline, chain, diskOps, runs, otherVarsButMs>>

\* One call of the store.
MsCall(op, args, err, out, f, m, u) ==
    /\ ms.n < MaxStoreCalls
    /\ files' = f
    /\ metadata' = m
    /\ ms' = [unparseable |-> u,
              obs |-> [op |-> op, args |-> args, err |-> err, out |-> out],
              n |-> ms.n + 1]
    /\ MsOnly

\* metadata.rs:102-122
MsUpsertFile ==
    \E p \in StorePaths, indexed \in BOOLEAN :
        MsCall("upsert_file", <<p>>, "Ok", <<>>,
               upsert_file(files, [path |-> p, mtime |-> 0, size |-> 1, indexed |-> indexed]),
               metadata, ms.unparseable \ {p})

\* metadata.rs:125-142  the row refers to files(path): with foreign keys
\* enforced the insert fails when there is no such row.
MsUpsertMetadata ==
    \E p \in StorePaths, meta \in MetaRows :
        IF fkOn /\ ~has_file(files, p)
        THEN MsCall("upsert_metadata", <<p>>, "Sqlite", <<>>, files, metadata, ms.unparseable)
        ELSE MsCall("upsert_metadata", <<p>>, "Ok", <<>>,
                    files, upsert_metadata(metadata, p, meta), ms.unparseable)

\* metadata.rs:222-250
MsRemoveStaleFiles ==
    \E current_paths \in StoreLists :
        LET kept == remove_stale_files(files, current_paths)
        IN  MsCall("remove_stale_files", <<current_paths>>, "Ok",
                   <<Cardinality((DOMAIN files) \ DOMAIN kept)>>,
                   kept, cascade_metadata(metadata, DOMAIN kept),
                   ms.unparseable \cap DOMAIN kept)

\* metadata.rs:314-358
MsSearchByMetadata ==
    \E area \in {<<>>, <<"library">>, <<"now">>, <<AreaPayload>>},
       tag \in {<<>>, <<TagPayload>>} \cup {<<t>> : t \in StoreTags} :
        LET after == run_statement(search_statement(area, tag, 100), files)
        IN  MsCall("search_by_metadata", <<area, tag>>, "Ok",
                   search_by_metadata(files, metadata, area, tag),
                   after, cascade_metadata(metadata, DOMAIN after),
                   ms.unparseable \cap DOMAIN after)

\* metadata.rs:145-167
MsGetFile ==
    \E p \in StorePaths, tnow \in CoarseTimes :
        /\ (p \notin ms.unparseable => tnow = 0)
        /\ MsCall("get_file", <<p>>, "Ok", get_file(files, p, ms.unparseable, tnow),
                  files, metadata, ms.unparseable)

\* metadata.rs:271-311
MsListDirectory ==
    \E dir \in StoreDirs, tnow \in CoarseTimes :
        /\ (ms.unparseable = {} => tnow = 0)
        /\ MsCall("list_directory", <<dir>>, "Ok",
                  store_list_directory(files, dir, ms.unparseable, tnow),
                  files, metadata, ms.unparseable)

\* Some other writer of the database file leaves text that is no RFC 3339
\* timestamp in the mtime column of a row (the column is TEXT NOT NULL,
\* metadata.rs:78).
MsForeignWrite ==
    \E p \in DOMAIN files :
        /\ p \notin ms.unparseable
        /\ MsCall("foreign_write", <<p>>, "Ok", <<>>, files, metadata, ms.unparseable \cup {p})

StoreNext ==
    \/ MsUpsertFile
    \/ MsUpsertMetadata
    \/ MsRemoveStaleFiles
    \/ MsSearchByMetadata
    \/ MsGetFile
    \/ MsListDirectory
    \/ MsForeignWrite

\* ===================================================================
\* fracta-index: SearchIndex
\* ===================================================================

\* search.rs:235
document_count(docs) == Cardinality(DOMAIN docs)

\* search.rs:157-168  delete_term(path) then add the new document
stage_add(pend, path, doc) == Upsert(pend, path, doc)

\* search.rs:180-181  delete_term(path)
stage_remove(pend, path) == Restrict(pend, (DOMAIN pend) \ {path})

\* ===================================================================
\* fracta-note: Document::parse, abstracted.  A file's content is one of
\* Contents; parsing is a pure function of the content.
\* ===================================================================

\* lib.rs:233-249  FileMetadata extracted from the parsed document
file_meta(content) ==
    [title |-> content,
     tags  |-> {<<"t", content>>},
     date  |-> content,
     area  |-> IF content = 1 THEN "library" ELSE "now"]

Areas == {"library", "now"}

Tags == {<<"t", c>> : c \in Contents} \cup {<<"t">>}

\* lib.rs:252,262  the search document (path, title, plain_text)
search_doc(path, content) ==
    [path |-> path, title |-> file_meta(content).title, content |-> content]

\* ===================================================================
\* fracta-index: Index
\* ===================================================================

\* lib.rs:104-107  files of the walk with kind = File and scope = Managed
managed_files == DOMAIN disk

\* Every file is taken for Markdown.
is_markdown_any(p) == TRUE

\* lib.rs:225
is_markdown(p) == p[2] \in {"md", "markdown"}

\* lib.rs:229  std::fs::read_to_string succeeds
can_read(p) == disk[p].readable

\* lib.rs:216-222  mtime falls back to Utc::now() when unavailable
file_entry(p, indexed, tnow) ==
    [path    |-> p,
     mtime   |-> IF hasMtime THEN disk[p].mtime ELSE tnow,
     size    |-> disk[p].content,
     indexed |-> indexed]

\* chrono TimeDelta::num_seconds: whole seconds, truncated toward zero
num_seconds(d) ==
    IF d >= 0 THEN d \div TicksPerSecond ELSE -((-d) \div TicksPerSecond)

\* lib.rs:170-177
needs_update(tbl, p) ==
    IF hasMtime /\ has_file(tbl, p)
    THEN Abs(num_seconds(disk[p].mtime - tbl[p].mtime)) > MtimeToleranceSecs
    ELSE TRUE

\* Number of store writes index_file performs for p (lib.rs:257-262 for a
\* readable Markdown file, lib.rs:267 / 271 otherwise).
n_writes(p) == IF is_markdown(p) /\ can_read(p) THEN 3 ELSE 1

\* lib.rs:203-276  index_file, stopped by an error after k completed store
\* writes (k = n_writes(p): the call returns Ok).
index_file(st, p, k) ==
    LET md   == is_markdown(p) /\ can_read(p)
        full == k = n_writes(p)
    IN [files    |-> IF k >= 1 THEN upsert_file(st.files, file_entry(p, md, st.now))
                     ELSE st.files,
        metadata |-> IF md /\ k >= 2
                     THEN upsert_metadata(st.metadata, p, file_meta(disk[p].content))
                     ELSE st.metadata,
        pending  |-> IF md /\ k >= 3
                     THEN stage_add(st.pending, p, search_doc(p, disk[p].content))
                     ELSE st.pending,
        now      |-> st.now,
        added    |-> IF md /\ k >= 3 THEN st.added \cup {p} ELSE st.added,
        reindexed |-> IF full THEN st.reindexed \cup {p} ELSE st.reindexed,
        markdown_indexed |-> st.markdown_indexed + (IF md /\ full THEN 1 ELSE 0),
        metadata_updated |-> st.metadata_updated + (IF full THEN 1 ELSE 0)]

\* lib.rs:120-122 (build_full) and lib.rs:164-182 (update_incremental): the
\* loop over the walked files, in walk order.
RECURSIVE run_files(_, _, _)
run_files(st, seq, incr) ==
    IF seq = <<>> THEN st
    ELSE LET p == Head(seq)
         IN run_files(IF incr /\ ~needs_update(st.files, p)
                      THEN st
                      ELSE index_file(st, p, n_writes(p)),
                      Tail(seq), incr)

\* search.rs:138-145  begin_write creates a writer only when there is none;
\* an existing writer keeps what it has staged.
begin_write_pending == IF writer = "none" THEN committed ELSE pending

\* State of the run when the loop starts (lib.rs:95-112 / 139-156).
run_start(tnow) ==
    [files |-> files, metadata |-> metadata, pending |-> begin_write_pending,
     now |-> tnow, added |-> {}, reindexed |-> {}, markdown_indexed |-> 0, metadata_updated |-> 0]

\* The observable state named by the rebuild properties: FileEntries with
\* their indexed flag, FileMetadata rows, searchable paths and the counts.
Obs(f, m, c) ==
    [entries  |-> [p \in DOMAIN f |-> f[p].indexed],
     metadata |-> m,
     docs     |-> c,
     by_area  |-> [a \in Areas |-> search_by_metadata(f, m, <<a>>, <<>>)],
     by_tag   |-> [t \in Tags |-> search_by_metadata(f, m, <<>>, <<t>>)],
     file_count |-> file_count(f),
     indexed_count |-> indexed_count(f),
     search_document_count |-> document_count(c)]

NoStats == [files_scanned |-> 0, markdown_indexed |-> 0, metadata_updated |-> 0,
            stale_removed |-> 0]

\* The record kept of the last operation: its name, whether it returned Ok,
\* the error kind otherwise, whether the writer was absent (idle) and the
\* cache fresh when it was called, and what a build run did.
Outcome(op, err, idle, wasFresh, added, reindexed, stats) ==
    [op |-> op, ok |-> err = "", err |-> err, idle |-> idle, fresh |-> wasFresh,
     added |-> added, reindexed |-> reindexed, stats |-> stats]

Plain(op, err) == Outcome(op, err, writer = "none", FALSE, {}, {}, NoStats)

NoBaseline == [n |-> 0, obs |-> Obs(EmptyMap, EmptyMap, EmptyMap)]

\* A freshly opened Index over a deleted cache directory (lib.rs:62-76).
Fresh ==
    /\ files = EmptyMap /\ metadata = EmptyMap /\ committed = EmptyMap
    /\ writer = "none"

\* lib.rs:93-132 build_full / lib.rs:137-192 update_incremental.
\* order: the walk order; failAt = 0: the run succeeds; failAt in 1..n: the
\* run returns an error while handling order[failAt] after k store writes;
\* failAt = n+1: remove_stale_files returns an error.  crash: the run stops
\* there because the process dies, and the Index is opened again
\* (lib.rs:62-76): the writer and what it had staged are gone.
RunTo(op, incr, order, failAt, k, tnow, crash) ==
    LET n    == Len(order)
        cur  == managed_files
        pre  == run_files(run_start(tnow), SubSeq(order, 1, IF failAt = 0 THEN n ELSE failAt - 1), incr)
        st   == IF failAt \in 1..n THEN index_file(pre, order[failAt], k) ELSE pre
        ok   == failAt = 0
        kept == remove_stale_files(st.files, order)
        wasFresh == Fresh
    IN /\ runs < MaxRuns
       /\ runs' = runs + 1
       /\ files' = IF ok THEN kept ELSE st.files
       /\ metadata' = IF ok THEN cascade_metadata(st.metadata, DOMAIN kept) ELSE st.metadata
       /\ crash => ~ok
       /\ pending' = IF crash THEN committed ELSE st.pending
       /\ writer' = IF crash THEN "none" ELSE "some"
       /\ committed' = IF ok THEN st.pending ELSE committed
       /\ last' = Outcome(op, IF ok THEN "" ELSE IF crash THEN "Crash" ELSE "Error",
                           writer = "none", wasFresh,
                           st.added, st.reindexed,
                           IF ok
                           THEN [files_scanned |-> Cardinality(cur),
                                 markdown_indexed |-> st.markdown_indexed,
                                 metadata_updated |-> st.metadata_updated,
                                 stale_removed |-> Cardinality((DOMAIN st.files) \ DOMAIN kept)]
                           ELSE NoStats)
       /\ everIndexed' = IF ok THEN everIndexed \cup st.reindexed ELSE everIndexed
       /\ baseline' = IF ok /\ wasFresh /\ ~incr
                      THEN IF baseline.n = 0
                           THEN [n |-> 1, obs |-> Obs(files', metadata', committed')]
                           ELSE [baseline EXCEPT !.n = 2]
                      ELSE baseline
       /\ chain' = IF ok /\ ~incr THEN "built"
                   ELSE IF ok /\ incr /\ chain = "mutated" THEN "incr"
                   ELSE "none"
       /\ UNCHANGED <<disk, hasMtime, fkOn, diskOps>>
       /\ UNCHANGED otherVars

Run(op, incr, order, failAt, k, tnow) == RunTo(op, incr, order, failAt, k, tnow, FALSE)

\* Utc::now() is read only where the mtime of an entry is unavailable.
ClockReadings(T) == IF hasMtime THEN {0} ELSE T

FailPoints(order, incr, mayFail) ==
    IF ~mayFail THEN {<<0, 0>>}
    ELSE
    {<<0, 0>>, <<Len(order) + 1, 0>>}
    \cup {<<i, k>> \in (1..Len(order)) \X (0..2) :
            k < n_writes(order[i])
            /\ (incr /\ ~needs_update(run_files(run_start(0), SubSeq(order, 1, i - 1), incr).files, order[i])
                  => k = 0)}

BuildFull(T, mayFail) ==
    \E order \in Perms(managed_files) : \E fp \in FailPoints(order, FALSE, mayFail) :
    \E tnow \in ClockReadings(T) :
        Run("build_full", FALSE, order, fp[1], fp[2], tnow)

UpdateIncremental(T, mayFail) ==
    \E order \in Perms(managed_files) : \E fp \in FailPoints(order, TRUE, mayFail) :
    \E tnow \in ClockReadings(T) :
        Run("update_incremental", TRUE, order, fp[1], fp[2], tnow)

\* The process dies in a build, at one of the points where a build can
\* stop, and the Index is opened again on the same cache directory.
BuildCrash ==
    \E incr \in BOOLEAN, order \in Perms(managed_files) :
    \E fp \in FailPoints(order, incr, TRUE) \ {<<0, 0>>} :
    \E tnow \in ClockReadings(CoarseTimes) :
        RunTo(IF incr THEN "update_incremental" ELSE "build_full",
              incr, order, fp[1], fp[2], tnow, TRUE)

\* Closing the Index, deleting the cache directory and opening it again
\* (lib.rs:62-76; integration_test.rs:506-511).
DeleteCache ==
    /\ ~Fresh
    /\ files' = EmptyMap /\ metadata' = EmptyMap
    /\ committed' = EmptyMap /\ pending' = EmptyMap
    /\ writer' = "none"
    /\ last' = Plain("delete_cache", "")
    /\ everIndexed' = {}
    /\ chain' = "none"
    /\ UNCHANGED <<disk, hasMtime, fkOn, baseline, diskOps, runs>>
    /\ UNCHANGED otherVars

\* ------------------------------------------------ the user's disk activity
DiskChanged(op) ==
    /\ diskOps < MaxDiskOps
    /\ diskOps' = diskOps + 1
    /\ last' = Plain(op, "")
    /\ baseline' = NoBaseline
    /\ chain' = IF chain = "built" THEN "mutated" ELSE "none"
    /\ UNCHANGED <<hasMtime, fkOn, files, metadata, committed, pending, writer,
                   everIndexed, runs>>
    /\ UNCHANGED otherVars

\* A file is created or rewritten; t is the modification time it gets.
WriteFile(P, T) ==
    \E p \in P, c \in Contents, t \in T :
        /\ p \in DOMAIN disk => disk[p].content # c \/ disk[p].mtime # t
        /\ disk' = Upsert(disk, p, [mtime |-> t, readable |-> TRUE, content |-> c])
        /\ DiskChanged("write")

RemoveFile ==
    \E p \in DOMAIN disk :
        /\ disk' = Restrict(disk, (DOMAIN disk) \ {p})
        /\ DiskChanged("remove")

\* A permission change: the file can no longer (or can again) be read; the
\* modification time is not affected.
Chmod ==
    \E p \in DOMAIN disk :
        /\ disk' = [disk EXCEPT ![p].readable = ~@]
        /\ DiskChanged("chmod")

IndexInit ==
    /\ disk = EmptyMap
    /\ hasMtime \in BOOLEAN
    /\ fkOn \in BOOLEAN
    /\ files = EmptyMap /\ metadata = EmptyMap
    /\ committed = EmptyMap /\ pending = EmptyMap
    /\ writer = "none"
    /\ last = Outcome("open", "", TRUE, FALSE, {}, {}, NoStats)
    /\ everIndexed = {}
    /\ baseline = NoBaseline
    /\ chain = "none"
    /\ diskOps = 0
    /\ runs = 0

IndexNext ==
    \/ BuildFull(CoarseTimes, TRUE)
    \/ UpdateIncremental(CoarseTimes, TRUE)
    \/ DeleteCache
    \/ WriteFile(Paths, CoarseTimes)
    \/ RemoveFile
    \/ Chmod

\* ===================================================================
\* fracta-index: the SearchIndex writer, driven directly
\* ===================================================================

\* search.rs:186-192  commit leaves self.writer in place
commit_writer_taken(w) == "none"

commit_writer(w) == w

SearchOnly == UNCHANGED <<disk, hasMtime, fkOn, files, metadata, everIndexed, baseline,
                          chain, diskOps, runs>>

\* search.rs:138-145
BeginWrite ==
    /\ writer' = "some"
    /\ pending' = begin_write_pending
    /\ last' = Plain("begin_write", "")
    /\ UNCHANGED committed
    /\ SearchOnly /\ UNCHANGED otherVars

\* search.rs:151-171
AddDocument ==
    \E p \in Paths, c \in Contents :
        /\ IF writer = "none"
           THEN /\ last' = Plain("add_document", "InvalidState")
                /\ UNCHANGED pending
           ELSE /\ last' = Plain("add_document", "")
                /\ pending' = stage_add(pending, p, search_doc(p, c))
        /\ UNCHANGED <<committed, writer>>
        /\ SearchOnly /\ UNCHANGED otherVars

\* search.rs:174-183
RemoveDocument ==
    \E p \in Paths :
        /\ IF writer = "none"
           THEN /\ last' = Plain("remove_document", "InvalidState")
                /\ UNCHANGED pending
           ELSE /\ last' = Plain("remove_document", "")
                /\ pending' = stage_remove(pending, p)
        /\ UNCHANGED <<committed, writer>>
        /\ SearchOnly /\ UNCHANGED otherVars

\* search.rs:186-192  writer.commit() and reader.reload() when a writer exists
Commit ==
    /\ committed' = IF writer = "some" THEN pending ELSE committed
    /\ pending' = committed'
    /\ writer' = commit_writer(writer)
    /\ last' = Plain("commit", "")
    /\ SearchOnly /\ UNCHANGED otherVars

\* search.rs:195-200  writer.rollback() when a writer exists
Rollback ==
    /\ pending' = committed
    /\ last' = Plain("rollback", "")
    /\ UNCHANGED <<committed, writer>>
    /\ SearchOnly /\ UNCHANGED otherVars

\* search.rs:241-249  begin_write, delete_all_documents, commit, reload
Clear ==
    /\ writer' = "some"
    /\ committed' = EmptyMap
    /\ pending' = EmptyMap
    /\ last' = Plain("clear", "")
    /\ SearchOnly /\ UNCHANGED otherVars

SearchNext ==
    \/ BeginWrite
    \/ AddDocument
    \/ RemoveDocument
    \/ Commit
    \/ Rollback
    \/ Clear

\* ===================================================================
\* fracta-vfs: atomic_write (writer.rs:22-64)
\* ===================================================================

Bytes == 1..MaxByte

RECURSIVE SeqsUpTo(_)
SeqsUpTo(n) ==
    IF n = 0 THEN {<<>>}
    ELSE LET shorter == SeqsUpTo(n - 1)
         IN shorter \cup {Append(b, x) : b \in {q \in shorter : Len(q) = n - 1}, x \in Bytes}

DataSet == SeqsUpTo(MaxDataLen)

NoFile == [exists |-> FALSE, bytes |-> <<>>]

File(b) == [exists |-> TRUE, bytes |-> b]

AllFiles == {NoFile} \cup {File(b) : b \in DataSet}

AwIdle(target) ==
    [pc |-> "idle", target |-> target, temp |-> NoFile, data |-> <<>>, prev |-> target,
     renamed |-> FALSE, err |-> "", failStep |-> "", partial |-> 0]

\* The bytes go straight into the target file instead of the temporary one.
write_chunk_in_place(a, n) ==
    LET upto == SubSeq(a.data, 1, Len(a.temp.bytes) + n)
    IN [a EXCEPT !.temp = File(upto), !.target = File(upto)]

\* writer.rs:36  one write() of write_all: the next n bytes reach the temp file
write_chunk(a, n) ==
    [a EXCEPT !.temp = File(SubSeq(a.data, 1, Len(a.temp.bytes) + n))]

\* writer.rs:57  persist: rename the temp file onto the target
persist(a) ==
    [a EXCEPT !.target = File(a.temp.bytes), !.temp = NoFile, !.renamed = TRUE,
              !.pc = "renamed"]

\* writer.rs:30-61  every map_err: the call returns AtomicWriteFailed and the
\* NamedTempFile is dropped, which removes the temp file
fail_step(a) ==
    [a EXCEPT !.pc = "failed", !.err = "AtomicWriteFailed", !.failStep = a.pc,
              !.partial = Len(a.temp.bytes), !.temp = NoFile]

AwOnly == UNCHANGED <<indexVars, vfsVars, queryVars, sx, wt, ident, ms, note, ffi>>

\* writer.rs:22  atomic_write(path, data) is called
AwCall ==
    /\ aw.pc = "idle"
    /\ \E d \in DataSet :
         aw' = [AwIdle(aw.target) EXCEPT !.pc = "start", !.data = d]
    /\ AwOnly

\* writer.rs:29-33  NamedTempFile::new_in(parent)
AwCreateTemp ==
    /\ aw.pc = "start"
    /\ aw' = [aw EXCEPT !.pc = "writing", !.temp = File(<<>>)]
    /\ AwOnly

\* writer.rs:36-40  write_all
AwWrite ==
    /\ aw.pc = "writing"
    /\ \E n \in 1..(Len(aw.data) - Len(aw.temp.bytes)) : aw' = write_chunk(aw, n)
    /\ AwOnly

\* writer.rs:43-46  flush
AwFlush ==
    /\ aw.pc = "writing"
    /\ Len(aw.temp.bytes) = Len(aw.data)
    /\ aw' = [aw EXCEPT !.pc = "flushed"]
    /\ AwOnly

\* writer.rs:49-54  sync_all
AwSync ==
    /\ aw.pc = "flushed"
    /\ aw' = [aw EXCEPT !.pc = "synced"]
    /\ AwOnly

\* writer.rs:57-61  persist
AwPersist ==
    /\ aw.pc = "synced"
    /\ aw' = persist(aw)
    /\ AwOnly

\* writer.rs:63  Ok(())
AwReturn ==
    /\ aw.pc = "renamed"
    /\ aw' = [aw EXCEPT !.pc = "ok"]
    /\ AwOnly

\* The step about to run returns an error.
AwFail ==
    /\ aw.pc \in {"start", "writing", "flushed", "synced"}
    /\ aw' = fail_step(aw)
    /\ AwOnly

\* The process dies; whatever is on disk stays as it is.
AwCrash ==
    /\ aw.pc \in {"start", "writing", "flushed", "synced", "renamed"}
    /\ aw' = [aw EXCEPT !.pc = "crashed"]
    /\ AwOnly

\* The caller goes on (or the process is started again).
AwReset ==
    /\ aw.pc \in {"ok", "failed", "crashed"}
    /\ aw' = AwIdle(aw.target)
    /\ AwOnly

AwNext ==
    \/ AwCall
    \/ AwCreateTemp
    \/ AwWrite
    \/ AwFlush
    \/ AwSync
    \/ AwPersist
    \/ AwReturn
    \/ AwFail
    \/ AwCrash
    \/ AwReset

\* ===================================================================
\* Location: path queries and the CRUD surface
\* (fracta-vfs/src/location.rs)
\* ===================================================================

FRACTA_DIR == ".fracta"

None == <<>>

Some(x) == <<x>>

\* ------------------------------------------------------------ the filesystem
\* A node path is the sequence of names from "/" to the node itself, with no
\* symlink on the way; a path argument is a sequence of components that may
\* hold ".", ".." and names of symlinks.
Dir == [kind |-> "dir", target |-> <<>>, content |-> 0]

FileNode(c) == [kind |-> "file", target |-> <<>>, content |-> c]

Link(t) == [kind |-> "link", target |-> t, content |-> 0]

\* Location.root
root == <<"r">>

\* A managed Location at /r with a folder d; its system directory holding s;
\* a directory /o outside; the symlinks /lr -> /r, /r/ls -> /r/.fracta,
\* /r/lo -> /o and the dangling /r/dl -> /o/m.
InitFs ==
    (<<>> :> Dir) @@ (<<"r">> :> Dir) @@ (<<"r", "d">> :> Dir)
    @@ (<<"r", ".fracta">> :> Dir) @@ (<<"r", ".fracta", "s">> :> FileNode(1))
    @@ (<<"o">> :> Dir) @@ (<<"o", "s">> :> FileNode(1))
    @@ (<<"lr">> :> Link(<<"r">>))
    @@ (<<"r", "ls">> :> Link(<<"r", ".fracta">>))
    @@ (<<"r", "lo">> :> Link(<<"o">>))
    @@ (<<"r", "dl">> :> Link(<<"o", "m">>))

DirArgs ==
    {<<"r">>, <<"r", "d">>, <<"r", ".fracta">>, <<"r", "d", "..", ".fracta">>,
     <<"r", ".", ".fracta">>, <<"lr">>, <<"lr", ".fracta">>, <<"r", "ls">>,
     <<"r", "lo">>, <<"r", "dl">>, <<"o">>}

LeafArgs == {"s", "n"}

PathArgs == DirArgs \cup {Append(d, l) : d \in DirArgs, l \in LeafArgs}

\* Destinations of rename: a new name in every directory, and three paths
\* that exist.
RenameTargets ==
    {Append(d, "n") : d \in DirArgs}
        \cup {<<"r", "d">>, <<"r", "dl">>, <<"r", ".fracta", "s">>}

Front(s) == SubSeq(s, 1, Len(s) - 1)

Last(s) == s[Len(s)]

Reverse(s) == [i \in 1..Len(s) |-> s[Len(s) + 1 - i]]

ParentNode(n) == IF n = <<>> THEN <<>> ELSE Front(n)

Subtree(f, n) == {m \in DOMAIN f : IsPrefix(n, m)}

RemoveTree(f, n) == Restrict(f, DOMAIN f \ Subtree(f, n))

NoEnt == [ok |-> FALSE, at |-> <<>>]

\* Path resolution of the operating system from node cur over the components
\* rest: "." stays, ".." goes to the parent node, a symlink is replaced by
\* its target; every component must exist.  follow tells whether a symlink
\* in the last component is followed.
RECURSIVE walk_path(_, _, _, _, _)
walk_path(f, cur, rest, fuel, follow) ==
    IF rest = <<>> THEN [ok |-> TRUE, at |-> cur]
    ELSE IF ~(cur \in DOMAIN f /\ f[cur].kind = "dir") THEN NoEnt
    ELSE LET c == Head(rest)
             t == Tail(rest)
             ch == Append(cur, c)
         IN  IF c = "." THEN walk_path(f, cur, t, fuel, follow)
             ELSE IF c = ".." THEN walk_path(f, ParentNode(cur), t, fuel, follow)
             ELSE IF ch \notin DOMAIN f THEN NoEnt
             ELSE IF f[ch].kind = "link" /\ (t # <<>> \/ follow)
                  THEN IF fuel = 0 THEN NoEnt
                       ELSE walk_path(f, <<>>, f[ch].target \o t, fuel - 1, follow)
             ELSE walk_path(f, ch, t, fuel, follow)

\* std::fs::canonicalize / Path::canonicalize
canonicalize(f, p) == walk_path(f, <<>>, p, MaxLinkHops, TRUE)

\* Path::exists, Path::is_dir: both follow symlinks.
exists(f, p) == canonicalize(f, p).ok

is_dir(f, p) == LET c == canonicalize(f, p) IN c.ok /\ f[c.at].kind = "dir"

\* The node a system call that does not follow the last component acts on
\* (rename, unlink, mkdir): the resolved parent directory and the last name.
node_of(f, p) ==
    IF p = <<>> \/ Last(p) \in {".", ".."} THEN NoEnt
    ELSE LET d == canonicalize(f, Front(p))
         IN  IF d.ok /\ f[d.at].kind = "dir"
             THEN [ok |-> TRUE, at |-> Append(d.at, Last(p))]
             ELSE NoEnt

\* ------------------------------------------------- std::path, on components
\* Path::components drops "." and keeps "..".
components(p) == SelectSeq(p, LAMBDA c : c # ".")

parent(p) == LET c == components(p) IN IF c = <<>> THEN None ELSE Some(Front(c))

file_name(p) ==
    LET c == components(p)
    IN  IF c = <<>> \/ Last(c) = ".." THEN None ELSE Some(Last(c))

starts_with(p, base) == IsPrefix(components(base), components(p))

strip_prefix(p, base) ==
    IF starts_with(p, base)
    THEN Some(SubSeq(components(p), Len(components(base)) + 1, Len(components(p))))
    ELSE None

join(p, name) == Append(p, name)

\* ------------------------------------------------------------ path queries
\* The loop of resolve_and_check that walks up to an existing ancestor;
\* pending_components holds the file names in the order they were pushed.
RECURSIVE find_existing(_, _, _)
find_existing(f, existing, pending_components) ==
    IF exists(f, existing)
    THEN [found |-> TRUE, existing |-> existing, pending |-> pending_components]
    ELSE IF file_name(existing) = None \/ parent(existing) = None
         THEN [found |-> FALSE, existing |-> existing, pending |-> pending_components]
    ELSE find_existing(f, parent(existing)[1],
                       Append(pending_components, file_name(existing)[1]))

resolve_and_check(f, path) ==
    LET canonical_root == canonicalize(f, root)
        canonical_path == canonicalize(f, path)
    IN  IF ~canonical_root.ok THEN None
        ELSE IF canonical_path.ok
             THEN IF starts_with(canonical_path.at, canonical_root.at)
                  THEN Some(canonical_path.at)
                  ELSE None
        ELSE LET fe == find_existing(f, path, <<>>)
                 anc == canonicalize(f, fe.existing)
                 resolved == anc.at \o Reverse(fe.pending)
             IN  IF ~fe.found \/ ~anc.ok THEN None
                 ELSE IF \E i \in DOMAIN fe.pending : fe.pending[i] = ".." THEN None
                 ELSE IF starts_with(resolved, canonical_root.at) THEN Some(resolved)
                 ELSE None

contains(f, path) == resolve_and_check(f, path) # None

relative_path(path) == strip_prefix(path, root)

check_writable(f, path) ==
    IF ~contains(f, path) THEN "OutsideLocation"
    ELSE IF relative_path(path) # None /\ starts_with(relative_path(path)[1], <<FRACTA_DIR>>)
         THEN "PermissionDenied"
    ELSE "Ok"

\* -------------------------------------------------- calls into the platform
Done(f) == [err |-> "Ok", fs |-> f]

Err(e, f) == [err |-> e, fs |-> f]

\* writer.rs atomic_write as one step: a temp file in the parent directory,
\* renamed over the last component of path.  fail stands for an I/O error of
\* any step.
atomic_write(f, path, content, fail) ==
    LET d == node_of(f, path)
    IN  IF fail \/ parent(path) = None THEN Err("AtomicWriteFailed", f)
        ELSE IF ~is_dir(f, parent(path)[1]) THEN Err("AtomicWriteFailed", f)
        ELSE IF ~d.ok \/ (d.at \in DOMAIN f /\ f[d.at].kind = "dir")
             THEN Err("AtomicWriteFailed", f)
        ELSE Done(Upsert(f, d.at, FileNode(content)))

\* std::fs::create_dir
create_dir(f, path) ==
    LET d == node_of(f, path)
    IN  IF d.ok /\ d.at \notin DOMAIN f THEN Done(Upsert(f, d.at, Dir)) ELSE Err("Io", f)

\* The subtree of node s moved to node d.
MoveTree(f, s, d) ==
    LET keep == DOMAIN f \ (Subtree(f, s) \cup Subtree(f, d))
        moved == {d \o SubSeq(m, Len(s) + 1, Len(m)) : m \in Subtree(f, s)}
    IN  [x \in keep \cup moved |->
            IF x \in keep THEN f[x] ELSE f[s \o SubSeq(x, Len(d) + 1, Len(x))]]

\* std::fs::rename: the last component of either path is not followed; a
\* directory replaces only an empty directory, anything else only a
\* non-directory; a directory cannot be moved into itself.
fs_rename(f, from, to) ==
    LET s == node_of(f, from)
        d == node_of(f, to)
    IN  IF ~s.ok \/ ~d.ok \/ s.at \notin DOMAIN f THEN Err("Io", f)
        ELSE IF s.at = d.at THEN Done(f)
        ELSE IF IsPrefix(s.at, d.at) THEN Err("Io", f)
        ELSE IF d.at \notin DOMAIN f THEN Done(MoveTree(f, s.at, d.at))
        ELSE IF f[s.at].kind = "dir"
             THEN IF f[d.at].kind = "dir" /\ Subtree(f, d.at) = {d.at}
                  THEN Done(MoveTree(f, s.at, d.at))
                  ELSE Err("Io", f)
        ELSE IF f[d.at].kind = "dir" THEN Err("Io", f)
        ELSE Done(MoveTree(f, s.at, d.at))

\* std::fs::remove_file: unlinks a file or the symlink itself.
remove_file(f, path) ==
    LET d == node_of(f, path)
    IN  IF d.ok /\ d.at \in DOMAIN f /\ f[d.at].kind # "dir"
        THEN Done(RemoveTree(f, d.at))
        ELSE Err("Io", f)

\* std::fs::remove_dir_all: a symlink is unlinked, a directory is removed
\* with everything below it, symlinks below it not followed.
remove_dir_all(f, path) ==
    LET d == node_of(f, path)
    IN  IF d.ok /\ d.at \in DOMAIN f /\ f[d.at].kind # "file"
        THEN Done(RemoveTree(f, d.at))
        ELSE Err("Io", f)

\* --------------------------------------------------------------------- CRUD
\* create_file without its existence check.
create_file_unchecked(f, path, content, fail) ==
    IF check_writable(f, path) # "Ok" THEN Err(check_writable(f, path), f)
    ELSE IF parent(path) # None /\ ~exists(f, parent(path)[1]) THEN Err("NotFound", f)
    ELSE atomic_write(f, path, content, fail)

\* location.rs:365-376
create_file(f, path, content, fail) ==
    IF check_writable(f, path) # "Ok" THEN Err(check_writable(f, path), f)
    ELSE IF exists(f, path) THEN Err("AlreadyExists", f)
    ELSE IF parent(path) # None /\ ~exists(f, parent(path)[1]) THEN Err("NotFound", f)
    ELSE atomic_write(f, path, content, fail)

create_folder(f, path) ==
    IF check_writable(f, path) # "Ok" THEN Err(check_writable(f, path), f)
    ELSE IF exists(f, path) THEN Err("AlreadyExists", f)
    ELSE create_dir(f, path)

write_file(f, path, content, fail) ==
    IF check_writable(f, path) # "Ok" THEN Err(check_writable(f, path), f)
    ELSE IF ~exists(f, path) THEN Err("NotFound", f)
    ELSE atomic_write(f, path, content, fail)

rename(f, from, to) ==
    IF check_writable(f, from) # "Ok" THEN Err(check_writable(f, from), f)
    ELSE IF check_writable(f, to) # "Ok" THEN Err(check_writable(f, to), f)
    ELSE IF ~exists(f, from) THEN Err("NotFound", f)
    ELSE IF exists(f, to) THEN Err("AlreadyExists", f)
    ELSE fs_rename(f, from, to)

move_entry(f, from, to_dir) ==
    IF check_writable(f, from) # "Ok" THEN Err(check_writable(f, from), f)
    ELSE IF ~contains(f, to_dir) THEN Err("OutsideLocation", f)
    ELSE IF ~exists(f, from) THEN Err("NotFound", f)
    ELSE IF ~is_dir(f, to_dir) THEN Err("NotFound", f)
    ELSE IF file_name(from) = None THEN Err("Io", f)
    ELSE LET dest == join(to_dir, file_name(from)[1])
         IN  IF exists(f, dest) THEN Err("AlreadyExists", f)
             ELSE IF check_writable(f, dest) # "Ok" THEN Err(check_writable(f, dest), f)
             ELSE fs_rename(f, from, dest)

delete_file(f, path) ==
    IF check_writable(f, path) # "Ok" THEN Err(check_writable(f, path), f)
    ELSE IF ~exists(f, path) THEN Err("NotFound", f)
    ELSE remove_file(f, path)

delete_folder(f, path) ==
    IF check_writable(f, path) # "Ok" THEN Err(check_writable(f, path), f)
    ELSE IF ~exists(f, path) THEN Err("NotFound", f)
    ELSE remove_dir_all(f, path)

\* ===================================================================
\* fracta-vfs: LocationWatcher (watcher.rs)
\* The debouncer thread runs the callback of start(); caller threads run
\* drain_events and has_pending_events; all of them go through the mutex of
\* the queue.
\* ===================================================================

Callers == {"c1", "c2"}

\* What the debouncer reports: a path under the watched root and the kind of
\* the debounced event.
RawEvents ==
    {[path |-> <<"r", "f">>, kind |-> "Any"],
     [path |-> <<"r", "f">>, kind |-> "AnyContinuous"],
     [path |-> <<"r", ".fracta", "s">>, kind |-> "Any"],
     [path |-> <<"r", "d", ".fracta">>, kind |-> "Any"]}

\* watcher.rs:59  event.path.components().any(|c| c.as_os_str() == ".fracta")
is_internal_below_root(path) == Len(path) > 1 /\ path[2] = FRACTA_DIR

is_internal(path) == \E i \in DOMAIN components(path) : components(path)[i] = FRACTA_DIR

\* watcher.rs:63-75  Any is Modified or Deleted by path.exists(), every other
\* kind is Modified.
fs_event(raw, path_exists, id) ==
    [kind |-> IF raw.kind = "Any" /\ ~path_exists THEN "Deleted" ELSE "Modified",
     path |-> raw.path,
     id   |-> id]

\* Mutex::lock: granted when no thread holds the mutex.
lock_granted_always(holder) == TRUE

lock_granted(holder) == holder = "free"

\* arm is the arm of FfiWatcher's match on its Option the call went through.
IdleCaller == [pc |-> "idle", op |-> "", taken |-> <<>>, got |-> <<>>, arm |-> ""]

\* The files under the watched root that the rename scenario moves about.
WatchedPaths == {<<"r", "f">>, <<"r", "g">>}

\* watcher.rs:46-97  start: an empty queue.  pushed, returned and dropped
\* record what went through the queue, errored that the debouncer reported
\* an error.  guard and inner are FfiWatcher's mutex and the Option in it
\* (ffi/lib.rs:745-759), stopped records that a stop() has returned.  tree is
\* the watched files on disk, seen the paths the debouncer holds a change for,
\* lastfs the last rename made.
WtStart ==
    [queue |-> <<>>, holder |-> "free",
     caller |-> [c \in Callers |-> IdleCaller],
     pushed |-> <<>>, returned |-> <<>>, dropped |-> {}, errored |-> FALSE,
     guard |-> "free", inner |-> "Some", stopped |-> FALSE,
     tree |-> {<<"r", "f">>}, seen |-> {}, lastfs |-> <<>>]

WtOnly == UNCHANGED <<indexVars, aw, vfsVars, queryVars, sx, ident, ms, note, ffi>>

\* watcher.rs:54-56  the callback is handed a batch and locks the queue.
NotifyLock ==
    /\ wt.holder # "notify" /\ lock_granted(wt.holder)
    /\ wt' = [wt EXCEPT !.holder = "notify"]
    /\ WtOnly

\* watcher.rs:57-76  one round of the loop over the batch, whose next event
\* is any of RawEvents.
NotifyEvent ==
    \E raw \in RawEvents, path_exists \in BOOLEAN :
        /\ wt.holder = "notify"
        /\ Len(wt.pushed) < MaxEvents
        /\ (raw.kind # "Any" \/ is_internal(raw.path)) => path_exists
        /\ IF is_internal(raw.path)
           THEN wt' = [wt EXCEPT !.dropped = @ \cup {raw.path}]
           ELSE LET e == fs_event(raw, path_exists, Len(wt.pushed) + 1)
                IN  wt' = [wt EXCEPT !.queue = Append(@, e),
                                     !.pushed = Append(@, e)]
        /\ WtOnly

\* watcher.rs:77  the batch is over and the guard is dropped.
NotifyUnlock ==
    /\ wt.holder = "notify"
    /\ wt' = [wt EXCEPT !.holder = "free"]
    /\ WtOnly

\* watcher.rs:78-80  a watcher error: nothing is queued.
NotifyError ==
    /\ wt.holder # "notify"
    /\ ~wt.errored
    /\ wt' = [wt EXCEPT !.errored = TRUE]
    /\ WtOnly

\* watcher.rs:101 / 107  a caller thread enters drain_events or
\* has_pending_events and locks the queue.
CallerLock ==
    \E c \in Callers, op \in {"drain_events", "has_pending_events"} :
        /\ wt.caller[c].pc = "idle"
        /\ wt.holder # c /\ lock_granted(wt.holder)
        /\ wt' = [wt EXCEPT !.holder = IF @ = "free" THEN c ELSE @,
                            !.caller[c] = [IdleCaller EXCEPT !.pc = "locked", !.op = op]]
        /\ WtOnly

\* watcher.rs:102  std::mem::take reads the vector out ...
DrainRead ==
    \E c \in Callers :
        /\ wt.caller[c].pc = "locked" /\ wt.caller[c].op = "drain_events"
        /\ wt' = [wt EXCEPT !.caller[c].pc = "read", !.caller[c].taken = wt.queue]
        /\ WtOnly

\* ... and leaves an empty one in its place.
DrainClear ==
    \E c \in Callers :
        /\ wt.caller[c].pc = "read"
        /\ wt' = [wt EXCEPT !.caller[c].pc = "cleared", !.queue = <<>>]
        /\ WtOnly

\* watcher.rs:103  the guard is dropped and the events are returned.
DrainReturn ==
    \E c \in Callers :
        /\ wt.caller[c].pc = "cleared"
        /\ wt' = [wt EXCEPT !.holder = IF @ = c THEN "free" ELSE @,
                            !.guard = IF @ = c THEN "free" ELSE @,
                            !.caller[c] = [IdleCaller EXCEPT !.op = "drain_events",
                                                             !.got = wt.caller[c].taken,
                                                             !.arm = wt.caller[c].arm],
                            !.returned = @ \o wt.caller[c].taken]
        /\ WtOnly

\* watcher.rs:106-109
HasPendingEvents ==
    \E c \in Callers :
        /\ wt.caller[c].pc = "locked" /\ wt.caller[c].op = "has_pending_events"
        /\ wt' = [wt EXCEPT !.holder = IF @ = c THEN "free" ELSE @,
                            !.guard = IF @ = c THEN "free" ELSE @,
                            !.caller[c] = [IdleCaller EXCEPT !.op = "has_pending_events",
                                                             !.got = <<wt.queue # <<>> >>,
                                                             !.arm = wt.caller[c].arm]]
        /\ WtOnly

WatcherNext ==
    \/ NotifyLock
    \/ NotifyEvent
    \/ NotifyUnlock
    \/ NotifyError
    \/ CallerLock
    \/ DrainRead
    \/ DrainClear
    \/ DrainReturn
    \/ HasPendingEvents

\* ------------------------------------------------------------------
\* FfiWatcher (fracta-ffi/src/lib.rs:744-788): the LocationWatcher in an
\* Option behind a mutex of its own.

\* ffi/lib.rs:786  *guard = None
ffi_stop_keeps(inner) == inner

ffi_stop(inner) == "None"

\* ffi/lib.rs:766, 775, 785  self.inner.lock().unwrap() of a call.
FfiEnter ==
    \E c \in Callers, op \in {"drain_events", "has_pending_events", "stop"} :
        /\ wt.caller[c].pc = "idle"
        /\ lock_granted(wt.guard)
        /\ wt' = [wt EXCEPT !.guard = c,
                            !.caller[c] = [IdleCaller EXCEPT !.pc = "ffi", !.op = op]]
        /\ WtOnly

\* ffi/lib.rs:784-787  stop: the LocationWatcher is dropped.  Its queue stays
\* with the callback of the debouncer for as long as that thread runs.
FfiStop ==
    \E c \in Callers :
        /\ wt.caller[c].pc = "ffi" /\ wt.caller[c].op = "stop"
        /\ wt' = [wt EXCEPT !.guard = "free",
                            !.inner = ffi_stop(@),
                            !.stopped = TRUE,
                            !.caller[c] = [IdleCaller EXCEPT !.op = "stop"]]
        /\ WtOnly

\* ffi/lib.rs:769 and 778  the None arm of drain_events and has_pending_events.
FfiNone ==
    \E c \in Callers :
        /\ wt.caller[c].pc = "ffi" /\ wt.caller[c].op # "stop"
        /\ wt.inner = "None"
        /\ wt' = [wt EXCEPT !.guard = "free",
                            !.caller[c] =
                                [IdleCaller EXCEPT
                                    !.op = wt.caller[c].op,
                                    !.arm = "None",
                                    !.got = IF wt.caller[c].op = "drain_events"
                                            THEN <<>> ELSE <<FALSE>>]]
        /\ WtOnly

\* ffi/lib.rs:768 and 777  the Some arm: the call goes on into the
\* LocationWatcher and locks its queue.
FfiSome ==
    \E c \in Callers :
        /\ wt.caller[c].pc = "ffi" /\ wt.caller[c].op # "stop"
        /\ wt.inner = "Some"
        /\ lock_granted(wt.holder)
        /\ wt' = [wt EXCEPT !.holder = c,
                            !.caller[c].pc = "locked",
                            !.caller[c].arm = "Some"]
        /\ WtOnly

FfiWatcherNext ==
    \/ NotifyLock
    \/ NotifyEvent
    \/ NotifyUnlock
    \/ NotifyError
    \/ FfiEnter
    \/ FfiStop
    \/ FfiNone
    \/ FfiSome
    \/ DrainRead
    \/ DrainClear
    \/ DrainReturn
    \/ HasPendingEvents

\* ------------------------------------------------------------------
\* Changes to the watched files and what the callback makes of them.

\* rename(2) of a watched file: the debouncer holds one change for each of
\* the two paths, with no link between them (DebouncedEvent is a path and a
\* kind).
WatchedRename ==
    \E from \in wt.tree, to \in WatchedPaths \ wt.tree :
        /\ Len(wt.pushed) + Cardinality(wt.seen \cup {from, to}) <= MaxEvents
        /\ wt' = [wt EXCEPT !.tree = (@ \ {from}) \cup {to},
                            !.seen = @ \cup {from, to},
                            !.lastfs = <<from, to>>]
        /\ WtOnly

\* A watched file is written (created or modified).
WatchedWrite ==
    \E path \in WatchedPaths :
        /\ Len(wt.pushed) + Cardinality(wt.seen \cup {path}) <= MaxEvents
        /\ wt' = [wt EXCEPT !.tree = @ \cup {path},
                            !.seen = @ \cup {path},
                            !.lastfs = <<>>]
        /\ WtOnly

\* watcher.rs:57-76  one round of the loop over a batch made of the changes
\* the debouncer holds, in the order its map yields them; exists() looks at
\* the disk as it is now.
NotifySeen ==
    \E path \in wt.seen :
        /\ wt.holder = "notify"
        /\ LET e == fs_event([path |-> path, kind |-> "Any"], path \in wt.tree,
                             Len(wt.pushed) + 1)
           IN  wt' = [wt EXCEPT !.seen = @ \ {path},
                                !.queue = Append(@, e),
                                !.pushed = Append(@, e)]
        /\ WtOnly

RenameNext ==
    \/ WatchedRename
    \/ WatchedWrite
    \/ NotifyLock
    \/ NotifySeen
    \/ NotifyUnlock

\* ------------------------------------------------------------------
\* Location identity: Location::new, open and init, and settings.json
\* (location.rs:66-123, settings.rs).  An id is a positive number, 0 stands
\* for no id; Uuid::now_v7() yields a number not yielded before.

Handles == {"l1", "l2"}

\* settings.rs:64-72  the id the settings hold, or else a new one.
get_or_create_id(id, fresh) == IF id # 0 THEN id ELSE fresh

\* location.rs:117-119  init writes the id of the Location object into the
\* settings it loaded.
init_id(loaded, own) == own

\* settings.rs:31-43  load: the defaults when there is no file, the parsed
\* content when there is one, and an error (ErrorKind::InvalidData) when the
\* content does not parse.
load(file, id) ==
    IF file = "absent" THEN [err |-> "Ok", id |-> 0]
    ELSE IF file = "invalid" THEN [err |-> "InvalidData", id |-> 0]
    ELSE [err |-> "Ok", id |-> id]

\* No settings.json, no Location object.
IdentStart ==
    [file |-> "absent", id |-> 0,
     objs |-> [h \in Handles |-> 0],
     next |-> 1,
     last |-> [op |-> "none", h |-> "", err |-> "Ok", id |-> 0]]

IdentOnly == UNCHANGED <<indexVars, aw, vfsVars, queryVars, sx, wt, ms, note, ffi>>

\* location.rs:66-74
LocationNew ==
    \E h \in Handles :
        /\ ident.next <= MaxIds
        /\ ident' = [ident EXCEPT !.objs[h] = ident.next, !.next = @ + 1,
                            !.last = [op |-> "new", h |-> h, err |-> "Ok", id |-> ident.next]]
        /\ IdentOnly

\* location.rs:81-106  open: load the settings (defaults without the file),
\* take or make the id, save, build the Location.  save replaces the file in
\* one step or fails and leaves it.
LocationOpen ==
    \E h \in Handles, save_ok \in BOOLEAN :
        /\ load(ident.file, ident.id).id = 0 => ident.next <= MaxIds
        /\ LET settings == load(ident.file, ident.id)
               id == get_or_create_id(settings.id, ident.next)
               next == IF settings.id = 0 THEN ident.next + 1 ELSE ident.next
           IN  IF settings.err # "Ok"
               THEN ident' = [ident EXCEPT
                                 !.last = [op |-> "open", h |-> h, err |-> settings.err,
                                           id |-> 0]]
               ELSE IF save_ok
               THEN ident' = [ident EXCEPT !.file = "valid", !.id = id, !.next = next,
                                     !.objs[h] = id,
                                     !.last = [op |-> "open", h |-> h, err |-> "Ok",
                                               id |-> id]]
               ELSE ident' = [ident EXCEPT !.next = next,
                                     !.last = [op |-> "open", h |-> h, err |-> "Io",
                                               id |-> 0]]
        /\ IdentOnly

\* location.rs:111-123  init: init_fracta_dir writes an empty settings.json
\* when there is none (init.rs:43-46), then the id of this Location object is
\* saved.
LocationInit ==
    \E h \in Handles, save_ok \in BOOLEAN :
        /\ ident.objs[h] # 0
        /\ LET settings == load(ident.file, ident.id)
           IN  IF settings.err # "Ok"
               THEN ident' = [ident EXCEPT
                                 !.last = [op |-> "init", h |-> h, err |-> settings.err,
                                           id |-> ident.objs[h]]]
               ELSE IF save_ok
               THEN ident' = [ident EXCEPT !.file = "valid",
                                 !.id = init_id(settings.id, ident.objs[h]),
                                 !.last = [op |-> "init", h |-> h, err |-> "Ok",
                                           id |-> ident.objs[h]]]
               ELSE ident' = [ident EXCEPT !.file = "valid",
                                 !.last = [op |-> "init", h |-> h, err |-> "Io",
                                           id |-> ident.objs[h]]]
        /\ IdentOnly

\* Something leaves in settings.json content that is no JSON object of the
\* settings (a torn or foreign write); what the file held is lost to load.
SettingsCorrupted ==
    /\ ident.file # "invalid"
    /\ ident' = [ident EXCEPT !.file = "invalid",
                         !.last = [op |-> "corrupt", h |-> "", err |-> "Ok", id |-> 0]]
    /\ IdentOnly

IdentityNext ==
    \/ LocationNew
    \/ LocationOpen
    \/ LocationInit
    \/ SettingsCorrupted

\* ===================================================================
\* fracta-ffi: the mutexes of FfiLocation, FfiIndex and FfiWatcher
\* (fracta-ffi/src/lib.rs).  One object of each kind, called by the threads
\* of the host application.
\* ===================================================================

Threads == 1..MaxThreads

\* ffi/lib.rs:196, 466, 745  the Mutex of each object
Locks == {"location", "index", "watcher"}

\* The exported methods by the locks they take: the CRUD and query methods
\* of FfiLocation stand together, and so do the reading methods of FfiIndex.
FfiOps ==
    {"build_full", "update_incremental", "index_open", "search", "crud",
     "drain_events", "stop"}

\* update_incremental takes the Index first.
locks_of_index_first(op) ==
    IF op = "build_full" THEN <<"location", "index">>
    ELSE IF op = "update_incremental" THEN <<"index", "location">>
    ELSE IF op \in {"index_open", "crud"} THEN <<"location">>
    ELSE IF op = "search" THEN <<"index">>
    ELSE <<"watcher">>

\* The locks a method takes, in the order of its lock() calls:
\* ffi/lib.rs:502-503 and 510-511 (build_full, update_incremental), 474
\* (FfiIndex::open), 221-338 (FfiLocation), 518-552 (FfiIndex), 767-785
\* (FfiWatcher).
locks_of(op) ==
    IF op \in {"build_full", "update_incremental"} THEN <<"location", "index">>
    ELSE IF op \in {"index_open", "crud"} THEN <<"location">>
    ELSE IF op = "search" THEN <<"index">>
    ELSE <<"watcher">>

\* std::sync::Mutex::lock returns when no thread holds the mutex.
mutex_free(holders) == holders = {}

\* No call in progress.
FfiIdle ==
    [pc   |-> [t \in Threads |-> "idle"],
     op   |-> [t \in Threads |-> ""],
     k    |-> [t \in Threads |-> 0],
     held |-> [l \in Locks |-> {}]]

FfiOnly == UNCHANGED <<indexVars, aw, vfsVars, queryVars, sx, wt, ident, ms, note>>

\* A thread calls a method.
FfiCallMethod ==
    \E t \in Threads, op \in FfiOps :
        /\ ffi.pc[t] = "idle"
        /\ ffi' = [ffi EXCEPT !.pc[t] = "lock", !.op[t] = op, !.k[t] = 0]
        /\ FfiOnly

\* The next lock() of the method returns: the thread holds the mutex, and
\* with the last one the body of the method runs.
FfiLock ==
    \E t \in Threads :
        /\ ffi.pc[t] = "lock"
        /\ LET l == locks_of(ffi.op[t])[ffi.k[t] + 1]
           IN  /\ mutex_free(ffi.held[l])
               /\ ffi' = [ffi EXCEPT
                             !.held[l] = @ \cup {t},
                             !.k[t] = @ + 1,
                             !.pc[t] = IF ffi.k[t] + 1 = Len(locks_of(ffi.op[t]))
                                       THEN "body" ELSE "lock"]
        /\ FfiOnly

\* The method returns and its guards are dropped; op keeps the name of the
\* method the thread called last.
FfiReturn ==
    \E t \in Threads :
        /\ ffi.pc[t] = "body"
        /\ ffi' = [ffi EXCEPT
                      !.held = [l \in Locks |-> ffi.held[l] \ {t}],
                      !.pc[t] = "idle", !.k[t] = 0]
        /\ FfiOnly

FfiNext ==
    \/ FfiCallMethod
    \/ FfiLock
    \/ FfiReturn

\* ===================================================================
\* fracta-note: Document::title (lib.rs:73-90) on parsed Documents.
\* Strings are sequences of characters.
\* ===================================================================

\* block.rs:80-109  Inline
TextInline(value) == [kind |-> "Text", value |-> value, children |-> <<>>]

StrongInline(children) == [kind |-> "Strong", value |-> <<>>, children |-> children]

HtmlInline(value) == [kind |-> "Html", value |-> value, children |-> <<>>]

SoftBreak == [kind |-> "SoftBreak", value |-> <<>>, children |-> <<>>]

\* block.rs  Block: Heading, Paragraph, BlockQuote
Heading(level, content) ==
    [kind |-> "Heading", level |-> level, content |-> content, children |-> <<>>]

Paragraph(content) ==
    [kind |-> "Paragraph", level |-> 0, content |-> content, children |-> <<>>]

BlockQuote(children) ==
    [kind |-> "BlockQuote", level |-> 0, content |-> <<>>, children |-> children]

\* serde_yaml::Value of a front-matter field, or no such field.
NoField == [kind |-> "absent", s |-> <<>>]

YamlString(s) == [kind |-> "string", s |-> s]

YamlNumber == [kind |-> "number", s |-> <<>>]

\* text.rs:73-92  extract_inline_text
RECURSIVE inlines_to_text(_)
inlines_to_text(inlines) ==
    IF inlines = <<>> THEN <<>>
    ELSE LET i == Head(inlines)
             t == IF i.kind \in {"Text", "Code"} THEN i.value
                  ELSE IF i.kind \in {"Emphasis", "Strong", "Strikethrough", "Link"}
                       THEN inlines_to_text(i.children)
                  ELSE IF i.kind = "SoftBreak" THEN <<" ">>
                  ELSE <<>>
         IN  t \o inlines_to_text(Tail(inlines))

\* front_matter.rs:39-41  get_str: the field when it is a YAML string
get_str(fields, key) ==
    IF fields[key].kind = "string" THEN Some(fields[key].s) ELSE None

\* lib.rs:81-88  the first level-1 heading among the blocks of the Document
RECURSIVE first_h1(_)
first_h1(blocks) ==
    IF blocks = <<>> THEN None
    ELSE IF Head(blocks).kind = "Heading" /\ Head(blocks).level = 1
         THEN Some(inlines_to_text(Head(blocks).content))
    ELSE first_h1(Tail(blocks))

\* The heading consulted before the front matter.
title_heading_first(doc) ==
    IF first_h1(doc.blocks) # None THEN first_h1(doc.blocks)
    ELSE IF doc.front_matter # None THEN get_str(doc.front_matter[1], "title")
    ELSE None

\* lib.rs:73-90
title(doc) ==
    IF doc.front_matter # None /\ get_str(doc.front_matter[1], "title") # None
    THEN get_str(doc.front_matter[1], "title")
    ELSE first_h1(doc.blocks)

HeadingTexts ==
    {<<TextInline(<<"H">>)>>,
     <<TextInline(<<"A">>), StrongInline(<<TextInline(<<"B">>)>>), HtmlInline(<<"x">>)>>}

BlockSet ==
    {Heading(1, c) : c \in HeadingTexts}
        \cup {Heading(2, <<TextInline(<<"S">>)>>),
              Paragraph(<<TextInline(<<"P">>), SoftBreak>>),
              BlockQuote(<<Heading(1, <<TextInline(<<"Q">>)>>)>>)}

FrontMatters ==
    {None,
     Some([title |-> NoField]),
     Some([title |-> YamlString(<<"F">>)]),
     Some([title |-> YamlString(<<>>)]),
     Some([title |-> YamlNumber])}

Documents ==
    {[front_matter |-> fm, blocks |-> b] :
        fm \in FrontMatters, b \in UNION {[1..n -> BlockSet] : n \in 0..MaxBlocks}}

NoDocument == [doc |-> [front_matter |-> None, blocks |-> <<>>], called |-> FALSE, title |-> None]

\* lib.rs:73  a call of title() on the Document
Title ==
    /\ ~note.called
    /\ note' = [note EXCEPT !.called = TRUE, !.title = title(note.doc)]
    /\ UNCHANGED <<indexVars, aw, vfsVars, queryVars, sx, wt, ident, ms, ffi>>

NoteNext == Title

\* ------------------------------------------------------------------ actions
VfsInit ==
    /\ fs = InitFs
    /\ vres = [op |-> "open", paths |-> <<>>, data |-> <<>>, err |-> "Ok"]
    /\ vops = 0
    /\ loc = [managed |-> TRUE, ignore_rules |-> <<>>]
    /\ sx = [writer |-> "none", segments |-> <<>>, ops |-> <<>>, reader |-> <<>>,
             calls |-> <<>>, expected |-> EmptyMap, visible |-> EmptyMap,
             acked |-> EmptyMap,
             obs |-> [op |-> "open", err |-> "Ok", out |-> <<>>], n |-> 0]
    /\ wt = WtStart
    /\ ident = IdentStart
    /\ ms = MsOpen
    /\ note = NoDocument
    /\ ffi = FfiIdle
    /\ qres = [op |-> "none", path |-> <<>>, opts |-> [include_ignored |-> FALSE, max_depth |-> <<>>],
               err |-> "Ok", out |-> <<>>]

\* A Location call on the given paths and bytes with outcome r.
CrudData(op, paths, data, r) ==
    /\ vops < MaxVfsOps
    /\ fs' = r.fs
    /\ vres' = [op |-> op, paths |-> paths, data |-> data, err |-> r.err]
    /\ vops' = vops + 1
    /\ UNCHANGED <<indexVars, aw, queryVars, sx, wt, ident, ms, note, ffi>>

\* A Location call on the given paths with outcome r.
Crud(op, paths, r) == CrudData(op, paths, <<>>, r)

Contains ==
    \E p \in PathArgs :
        Crud("contains", <<p>>, Err(IF contains(fs, p) THEN "true" ELSE "false", fs))

CreateFile ==
    \E p \in PathArgs, c \in Contents, fail \in BOOLEAN :
        CrudData("create_file", <<p>>, <<c>>, create_file(fs, p, c, fail))

CreateFolder ==
    \E p \in PathArgs : Crud("create_folder", <<p>>, create_folder(fs, p))

VfsWriteFile ==
    \E p \in PathArgs, c \in Contents, fail \in BOOLEAN :
        Crud("write_file", <<p>>, write_file(fs, p, c, fail))

Rename ==
    \E from \in PathArgs, to \in RenameTargets :
        Crud("rename", <<from, to>>, rename(fs, from, to))

MoveEntry ==
    \E from \in PathArgs, to_dir \in DirArgs :
        Crud("move_entry",
             IF file_name(from) = None THEN <<from>>
             ELSE <<from, join(to_dir, file_name(from)[1])>>,
             move_entry(fs, from, to_dir))

DeleteFile ==
    \E p \in PathArgs : Crud("delete_file", <<p>>, delete_file(fs, p))

DeleteFolder ==
    \E p \in PathArgs : Crud("delete_folder", <<p>>, delete_folder(fs, p))

VfsNext ==
    \/ Contains
    \/ CreateFile
    \/ CreateFolder
    \/ VfsWriteFile
    \/ Rename
    \/ MoveEntry
    \/ DeleteFile
    \/ DeleteFolder

\* ===================================================================
\* Location: ignore rules, scope, listing and traversal
\* (fracta-vfs/src/ignore.rs, location.rs)
\* ===================================================================

\* ignore.rs:24-28  a compiled rule.  The pattern is a literal name: not
\* anchored it is compiled to "**/name" and matches every path whose last
\* component is that name; anchored ("/name") it matches that path only.
Rule(name, anchored, negated, dir_only) ==
    [name |-> name, anchored |-> anchored, negated |-> negated, dir_only |-> dir_only]

\* ignore.rs:159  rule.matcher.is_match(rel_path), for the globs of ignore.rs:109-115
is_match(rule, rel_path) ==
    IF rule.anchored THEN rel_path = <<rule.name>>
    ELSE rel_path # <<>> /\ Last(rel_path) = rule.name

\* ignore.rs:153-164  the last rule that applies and matches decides.
RECURSIVE matches_from(_, _, _, _)
matches_from(rules, rel_path, dir, ignored) ==
    IF rules = <<>> THEN ignored
    ELSE LET rule == Head(rules)
         IN  IF rule.dir_only /\ ~dir THEN matches_from(Tail(rules), rel_path, dir, ignored)
             ELSE IF is_match(rule, rel_path)
                  THEN matches_from(Tail(rules), rel_path, dir, ~rule.negated)
             ELSE matches_from(Tail(rules), rel_path, dir, ignored)

matches_rules(rules, rel_path, dir) == matches_from(rules, rel_path, dir, FALSE)

\* Only the whole path is tested.
is_ignored_leaf_only(rules, rel_path, dir) ==
    rel_path # <<>> /\ matches_rules(rules, components(rel_path), dir)

\* ignore.rs:134-150  every prefix of the components, root to leaf; a
\* prefix that is not the whole path is taken for a directory.
is_ignored(rules, rel_path, dir) ==
    LET cs == components(rel_path)
    IN  \E i \in 1..Len(cs) :
            matches_rules(rules, SubSeq(cs, 1, i), IF i = Len(cs) THEN dir ELSE TRUE)

\* location.rs:213-239
scope_of(f, l, path) ==
    IF ~contains(f, path) THEN "None"
    ELSE IF ~l.managed THEN "Plain"
    ELSE IF relative_path(path) = None THEN "Managed"
    ELSE LET rel_path == relative_path(path)[1]
         IN  IF rel_path = <<>> THEN "Managed"
             ELSE IF starts_with(rel_path, <<FRACTA_DIR>>) THEN "Managed"
             ELSE IF is_ignored(l.ignore_rules, rel_path, is_dir(f, path)) THEN "Ignored"
             ELSE "Managed"

\* location.rs:488-518  metadata is that of the directory record, which does
\* not follow a symlink: a symlink is a File.
build_entry(f, l, path, node) ==
    [path |-> path,
     kind |-> IF f[node].kind = "dir" THEN "Folder" ELSE "File",
     name |-> IF file_name(path) = None THEN "" ELSE file_name(path)[1],
     scope |-> IF scope_of(f, l, path) = "None" THEN "Plain" ELSE scope_of(f, l, path)]

\* Names in byte order, for the sort of list_directory.
NameOrder == <<".fracta", "d", "dl", "lo", "lr", "ls", "m", "n", "o", "r", "s">>

Rank(order, name) == CHOOSE i \in 1..Len(order) : order[i] = name

\* The orders in which std::fs::read_dir may yield the names.
ReadDirOrders == {NameOrder, Reverse(NameOrder)}

RECURSIVE SortBy(_, _)
SortBy(S, key) ==
    IF S = {} THEN <<>>
    ELSE LET m == CHOOSE x \in S : \A y \in S : key[x] <= key[y]
         IN  <<m>> \o SortBy(S \ {m}, key)

Children(f, node) == {n \in DOMAIN f : Len(n) = Len(node) + 1 /\ IsPrefix(node, n)}

\* std::fs::read_dir(dir): the directory is resolved through symlinks; the
\* result is the error kind if it cannot be read, or the child nodes in the
\* order the platform yields them.
read_dir(f, dir, order) ==
    LET c == canonicalize(f, dir)
    IN  IF ~c.ok THEN [err |-> "NotFound", nodes |-> <<>>]
        ELSE IF f[c.at].kind # "dir" THEN [err |-> "Io", nodes |-> <<>>]
        ELSE [err |-> "Ok",
              nodes |-> SortBy(Children(f, c.at),
                               [n \in Children(f, c.at) |-> Rank(order, Last(n))])]

\* location.rs:246-279
list_directory(f, l, dir, order) ==
    LET rd == read_dir(f, dir, order)
        shown == SelectSeq(rd.nodes, LAMBDA n : Last(n) # FRACTA_DIR)
        entries == {build_entry(f, l, join(dir, Last(shown[i])), shown[i]) : i \in DOMAIN shown}
    IN  IF ~contains(f, dir) THEN [err |-> "OutsideLocation", out |-> <<>>]
        ELSE IF rd.err # "Ok" THEN [err |-> rd.err, out |-> <<>>]
        ELSE [err |-> "Ok",
              out |-> SortBy(entries,
                             [e \in entries |->
                                 (IF e.kind = "Folder" THEN 0 ELSE Len(NameOrder))
                                     + Rank(NameOrder, e.name)])]

\* WalkOptions: max_depth is None or Some(n).
WalkOptions(include_ignored, max_depth) ==
    [include_ignored |-> include_ignored, max_depth |-> max_depth]

\* Every entry is kept.
skip_ignored_never(entry, options) == FALSE

\* location.rs:343-346  an Ignored entry is skipped unless asked for.
skip_ignored(entry, options) == entry.scope = "Ignored" /\ ~options.include_ignored

\* The limit is taken one level deeper.
depth_reached_late(options, depth) ==
    options.max_depth # None /\ depth > options.max_depth[1]

\* location.rs:302-306  the depth limit, tested before the directory is read.
depth_reached(options, depth) ==
    options.max_depth # None /\ depth >= options.max_depth[1]

\* location.rs:295-358  walk_recursive; walk_entries is its loop over the
\* directory records that are left.
RECURSIVE walk_recursive(_, _, _, _, _, _)
RECURSIVE walk_entries(_, _, _, _, _, _, _)
walk_recursive(f, l, dir, options, depth, order) ==
    IF depth_reached(options, depth)
    THEN [err |-> "Ok", out |-> <<>>]
    ELSE LET rd == read_dir(f, dir, order)
         IN  IF rd.err # "Ok" THEN [err |-> rd.err, out |-> <<>>]
             ELSE [err |-> "Ok",
                   out |-> walk_entries(f, l, dir, rd.nodes, options, depth, order)]

walk_entries(f, l, dir, nodes, options, depth, order) ==
    IF nodes = <<>> THEN <<>>
    ELSE LET node == Head(nodes)
             path == join(dir, Last(node))
             entry == build_entry(f, l, path, node)
             rest == walk_entries(f, l, dir, Tail(nodes), options, depth, order)
         IN  IF Last(node) = FRACTA_DIR THEN rest
             ELSE IF skip_ignored(entry, options) THEN rest
             ELSE IF entry.kind = "Folder"
                  THEN <<entry>>
                           \o walk_recursive(f, l, path, options, depth + 1, order).out
                           \o rest
             ELSE <<entry>> \o rest

\* location.rs:285-293
walk(f, l, dir, options, order) ==
    IF ~contains(f, dir) THEN [err |-> "OutsideLocation", out |-> <<>>]
    ELSE walk_recursive(f, l, dir, options, 0, order)

\* ------------------------------------------------------------------ queries
NoOptions == WalkOptions(FALSE, None)

NoQuery == [op |-> "none", path |-> <<>>, opts |-> NoOptions, err |-> "Ok", out |-> <<>>]

\* Location::new: unmanaged, IgnoreRules::empty() (location.rs:66-74).
NewLocation == [managed |-> FALSE, ignore_rules |-> <<>>]

\* The rulesets "", "d/", ".fracta" + "s", and "s" + "!/s".
RuleSets ==
    {<<>>,
     <<Rule("d", FALSE, FALSE, TRUE)>>,
     <<Rule(FRACTA_DIR, FALSE, FALSE, FALSE), Rule("s", FALSE, FALSE, FALSE)>>,
     <<Rule("s", FALSE, FALSE, FALSE), Rule("s", TRUE, TRUE, FALSE)>>}

Locations == {NewLocation} \cup {[managed |-> TRUE, ignore_rules |-> r] : r \in RuleSets}

\* The trees the queries run on: InitFs, with /r/s and /r/d/s, and with the
\* folder /r/d/n holding a file as well.
ListTrees ==
    LET t1 == InitFs @@ (<<"r", "s">> :> FileNode(1)) @@ (<<"r", "d", "s">> :> FileNode(1))
        t2 == t1 @@ (<<"r", "d", "n">> :> Dir) @@ (<<"r", "d", "n", "s">> :> FileNode(2))
    IN  {InitFs, t1, t2}

QueryPaths == PathArgs \cup {<<"lr", "d">>, <<"lr", "d", "s">>}

Depths == {None, Some(0), Some(1), Some(2)}

Query(op, path, opts, r) ==
    /\ qres.op = "none"
    /\ qres' = [op |-> op, path |-> path, opts |-> opts, err |-> r.err, out |-> r.out]
    /\ UNCHANGED <<indexVars, aw, vfsVars, loc, sx, wt, ident, ms, note, ffi>>

ScopeOf ==
    \E p \in QueryPaths :
        Query("scope_of", p, NoOptions, [err |-> "Ok", out |-> <<scope_of(fs, loc, p)>>])

ListDirectory ==
    \E dir \in QueryPaths, order \in ReadDirOrders :
        Query("list_directory", dir, NoOptions, list_directory(fs, loc, dir, order))

Walk ==
    \E dir \in QueryPaths, inc \in BOOLEAN, md \in Depths, order \in ReadDirOrders :
        Query("walk", dir, WalkOptions(inc, md), walk(fs, loc, dir, WalkOptions(inc, md), order))

ListNext ==
    \/ ScopeOf
    \/ ListDirectory
    \/ Walk

\* ------------------------------------------------- IgnoreRules on its own
\* Every rule over two names, and the rule files of up to MaxRules rules.
AllRules ==
    {Rule(n, a, g, o) : n \in {"d", "s"}, a \in BOOLEAN, g \in BOOLEAN, o \in BOOLEAN}

RuleFiles == UNION {[1..k -> AllRules] : k \in 0..MaxRules}

\* Relative paths of one and two components.
RelPaths == {<<a>> : a \in {"d", "s"}} \cup {<<a, b>> : a \in {"d", "s"}, b \in {"d", "s"}}

\* ignore.rs:134-150  one call of is_ignored on the rules of the Location.
IsIgnored ==
    \E rel_path \in RelPaths, dir \in BOOLEAN :
        Query("is_ignored", rel_path, [is_dir |-> dir],
              [err |-> "Ok", out |-> <<is_ignored(loc.ignore_rules, rel_path, dir)>>])

\* ===================================================================
\* fracta-index: SearchIndex, document by document (search.rs)
\* The index is a list of stored documents; the writer holds the
\* operations staged since the last commit or rollback; the reader holds
\* the segments it loaded last.
\* ===================================================================

DeleteTerm(path) == [kind |-> "delete_term", path |-> path, doc |-> <<>>]

AddDoc(doc) == [kind |-> "add_document", path |-> doc.path, doc |-> <<doc>>]

\* IndexWriter::delete_term: every document with that path term goes.
delete_term(docs, path) == SelectSeq(docs, LAMBDA d : d.path # path)

\* IndexWriter::commit: the staged operations applied in the order staged.
RECURSIVE apply_ops(_, _)
apply_ops(docs, ops) ==
    IF ops = <<>> THEN docs
    ELSE apply_ops(IF Head(ops).kind = "delete_term"
                   THEN delete_term(docs, Head(ops).path)
                   ELSE Append(docs, Head(ops).doc[1]),
                   Tail(ops))

\* search.rs:151-171  delete_term(path_term), then add_document(doc)
add_document_ops_no_delete(ops, path, doc) == Append(ops, AddDoc(doc))

add_document_ops(ops, path, doc) == Append(Append(ops, DeleteTerm(path)), AddDoc(doc))

\* search.rs:174-183
remove_document_ops(ops, path) == Append(ops, DeleteTerm(path))

\* search.rs:189  self.reader.reload(): the reader takes the committed
\* segments.
reload_stale(segments, reader) == reader

reload(segments, reader) == segments

\* search.rs:203-232  the hits of a query, which matches a document by its
\* title or its content; the limit is large enough.
search(reader, query) ==
    LET found == SelectSeq(reader, LAMBDA d : d.title = query \/ d.content = query)
    IN  [i \in DOMAIN found |-> [path |-> found[i].path, title |-> found[i].title]]

\* search.rs:235-238  searcher.num_docs()
num_docs(reader) == Len(reader)

\* The calls staged through the writer, as the caller made them, and the
\* documents that result from them path by path.
RECURSIVE apply_calls(_, _)
apply_calls(docs, calls) ==
    IF calls = <<>> THEN docs
    ELSE apply_calls(IF Head(calls).op = "add_document"
                     THEN Upsert(docs, Head(calls).path, Head(calls).doc)
                     ELSE Restrict(docs, DOMAIN docs \ {Head(calls).path}),
                     Tail(calls))

SxObs(op, err, out) == [op |-> op, err |-> err, out |-> out]

\* search.rs:63-84 / 88-104  open: no writer, the reader on the empty index.
SxOpen ==
    [writer |-> "none", segments |-> <<>>, ops |-> <<>>, reader |-> <<>>,
     calls |-> <<>>, expected |-> EmptyMap, visible |-> EmptyMap, acked |-> EmptyMap,
     obs |-> SxObs("open", "Ok", <<>>), n |-> 0]

SxOnly == UNCHANGED <<indexVars, aw, vfsVars, queryVars, wt, ident, ms, note, ffi>>

SxCall(next) ==
    /\ sx.n < MaxSxCalls
    /\ sx' = [next EXCEPT !.n = sx.n + 1]
    /\ SxOnly

SxBeginWrite ==
    SxCall([sx EXCEPT !.writer = "some", !.obs = SxObs("begin_write", "Ok", <<>>)])

SxAddDocument ==
    \E p \in Paths, c \in Contents :
        IF sx.writer = "none"
        THEN SxCall([sx EXCEPT !.obs = SxObs("add_document", "InvalidState", <<>>)])
        ELSE SxCall([sx EXCEPT
                 !.ops = add_document_ops(sx.ops, p, search_doc(p, c)),
                 !.calls = Append(sx.calls, [op |-> "add_document", path |-> p,
                                             doc |-> search_doc(p, c)]),
                 !.obs = SxObs("add_document", "Ok", <<>>)])

SxRemoveDocument ==
    \E p \in Paths :
        IF sx.writer = "none"
        THEN SxCall([sx EXCEPT !.obs = SxObs("remove_document", "InvalidState", <<>>)])
        ELSE SxCall([sx EXCEPT
                 !.ops = remove_document_ops(sx.ops, p),
                 !.calls = Append(sx.calls, [op |-> "remove_document", path |-> p,
                                             doc |-> <<>>]),
                 !.obs = SxObs("remove_document", "Ok", <<>>)])

\* search.rs:186-192  fail: "" for Ok, "commit" if writer.commit() returns an
\* error (nothing is published), "reload" if reader.reload() does.  The
\* record of the call keeps the documents the index held before it.
SxCommit ==
    \E fail \in {"", "commit", "reload"} :
        IF sx.writer = "none"
        THEN fail = "" /\ SxCall([sx EXCEPT !.obs = SxObs("commit", "Ok", <<>>)])
        ELSE IF fail = "commit"
        THEN SxCall([sx EXCEPT !.obs = SxObs("commit", "Error", <<>>)])
        ELSE LET segs == apply_ops(sx.segments, sx.ops)
                 exp == apply_calls(sx.expected, sx.calls)
             IN  SxCall([sx EXCEPT
                     !.segments = segs,
                     !.ops = <<>>,
                     !.calls = <<>>,
                     !.expected = exp,
                     !.reader = IF fail = "" THEN reload(segs, sx.reader) ELSE sx.reader,
                     !.visible = IF fail = "" THEN exp ELSE sx.visible,
                     !.acked = IF fail = "" THEN exp ELSE sx.acked,
                     !.obs = SxObs("commit", IF fail = "" THEN "Ok" ELSE "Error",
                                   sx.segments)])

\* search.rs:195-200
SxRollback ==
    SxCall([sx EXCEPT
        !.ops = IF sx.writer = "some" THEN <<>> ELSE sx.ops,
        !.calls = IF sx.writer = "some" THEN <<>> ELSE sx.calls,
        !.obs = SxObs("rollback", "Ok", <<>>)])

\* search.rs:74-77  ReloadPolicy::OnCommitWithDelay: the reader of an on-disk
\* index reloads by itself some time after a commit.
SxBackgroundReload ==
    /\ sx.reader # sx.segments
    /\ sx' = [sx EXCEPT !.reader = reload(sx.segments, sx.reader),
                        !.visible = sx.expected,
                        !.obs = SxObs("reload", "Ok", <<>>)]
    /\ SxOnly

SxSearch ==
    \E q \in Contents :
        /\ sx' = [sx EXCEPT !.obs = SxObs("search", "Ok", <<q, search(sx.reader, q)>>)]
        /\ SxOnly

SxDocumentCount ==
    /\ sx' = [sx EXCEPT !.obs = SxObs("document_count", "Ok", <<num_docs(sx.reader)>>)]
    /\ SxOnly

\* Index::open_in_dir with what the writer had staged.
open_in_dir_with_staged(segments, ops) == apply_ops(segments, ops)

\* search.rs:67-68  Index::open_in_dir: the segments meta.json lists, which
\* are those of the last IndexWriter::commit that completed.
open_in_dir(segments, ops) == segments

\* search.rs:63-84  open on the directory of the index after the process has
\* died: no writer, and the reader on what open_in_dir finds.  The record of
\* the call keeps the operations that were staged.
reopen(index) ==
    [index EXCEPT
        !.writer = "none",
        !.segments = open_in_dir(index.segments, index.ops),
        !.reader = open_in_dir(index.segments, index.ops),
        !.visible = index.expected,
        !.ops = <<>>,
        !.calls = <<>>,
        !.obs = SxObs("reopen", "Ok", index.ops)]

\* The process dies outside IndexWriter::commit and the index is opened again.
SxCrash == SxCall(reopen(sx))

\* search.rs:187  the process dies inside commit(), after IndexWriter::commit
\* has completed and before commit() returns; the index is opened again.
SxCrashInCommit ==
    /\ sx.writer = "some"
    /\ SxCall(reopen([sx EXCEPT
                         !.segments = apply_ops(sx.segments, sx.ops),
                         !.expected = apply_calls(sx.expected, sx.calls),
                         !.ops = <<>>,
                         !.calls = <<>>]))

CrashNext ==
    \/ SxBeginWrite
    \/ SxAddDocument
    \/ SxRemoveDocument
    \/ SxCommit
    \/ SxRollback
    \/ SxCrash
    \/ SxCrashInCommit

SxNext ==
    \/ SxBeginWrite
    \/ SxAddDocument
    \/ SxRemoveDocument
    \/ SxCommit
    \/ SxRollback
    \/ SxBackgroundReload
    \/ SxSearch
    \/ SxDocumentCount

\* ===================================================================
\* Specifications
\* ===================================================================

Init == IndexInit /\ aw = AwIdle(NoFile) /\ VfsInit

Next == IndexNext

Spec == Init /\ [][Next]_vars

\* Builds that never return an error.
NoFailNext ==
    \/ BuildFull(CoarseTimes, FALSE)
    \/ UpdateIncremental(CoarseTimes, FALSE)
    \/ DeleteCache
    \/ WriteFile(Paths, CoarseTimes)
    \/ RemoveFile
    \/ Chmod

\* Builds that fail or crash, and the builds that follow them.
RecoverNext == IndexNext \/ BuildCrash

SpecRecover == Init /\ [][RecoverNext]_vars

SpecNoFail == Init /\ [][NoFailNext]_vars

SpecSearch == Init /\ [][SearchNext]_vars

WriterInit ==
    /\ IndexInit /\ hasMtime /\ fkOn
    /\ \E t \in AllFiles : aw = AwIdle(t)
    /\ VfsInit

SpecWriter == WriterInit /\ [][AwNext]_vars

\* The same Index over a single Markdown file whose modification times are
\* taken at sub-second resolution.
FinePaths == {<<"a", "md">>}

FineNext ==
    \/ BuildFull(Times, TRUE)
    \/ UpdateIncremental(Times, TRUE)
    \/ WriteFile(FinePaths, Times)

SpecFine == Init /\ [][FineNext]_vars

\* The Location alone, on a platform with modification times and foreign keys.
VfsSpecInit ==
    /\ IndexInit /\ hasMtime /\ fkOn
    /\ aw = AwIdle(NoFile)
    /\ VfsInit

SpecVfs == VfsSpecInit /\ [][VfsNext]_vars

\* Scope and listing queries over a set of trees and Locations.
ListInit ==
    /\ IndexInit /\ hasMtime /\ fkOn
    /\ aw = AwIdle(NoFile)
    /\ fs \in ListTrees
    /\ vres = [op |-> "open", paths |-> <<>>, data |-> <<>>, err |-> "Ok"]
    /\ vops = 0
    /\ loc \in Locations
    /\ qres = NoQuery
    /\ sx = SxOpen
    /\ wt = WtStart
    /\ ident = IdentStart
    /\ ms = MsOpen
    /\ note = NoDocument
    /\ ffi = FfiIdle

SpecList == ListInit /\ [][ListNext]_vars

\* IgnoreRules::is_ignored over every rule file of up to MaxRules rules.
IgnoreInit ==
    /\ IndexInit /\ hasMtime /\ fkOn
    /\ aw = AwIdle(NoFile)
    /\ fs = InitFs
    /\ vres = [op |-> "open", paths |-> <<>>, data |-> <<>>, err |-> "Ok"]
    /\ vops = 0
    /\ loc \in {[managed |-> TRUE, ignore_rules |-> r] : r \in RuleFiles}
    /\ qres = NoQuery
    /\ sx = SxOpen
    /\ wt = WtStart
    /\ ident = IdentStart
    /\ ms = MsOpen
    /\ note = NoDocument
    /\ ffi = FfiIdle

SpecIgnore == IgnoreInit /\ [][IsIgnored]_vars

\* The threads of the host application calling through the binding layer.
SpecFfi == VfsSpecInit /\ [][FfiNext]_vars

\* The SearchIndex alone, document by document.
SpecDocs == VfsSpecInit /\ [][SxNext]_vars

\* The SearchIndex on disk, with crashes of the process.
SpecCrash == VfsSpecInit /\ [][CrashNext]_vars

\* The watcher alone.
SpecWatcher == VfsSpecInit /\ [][WatcherNext]_vars

\* The watcher behind FfiWatcher, with stop().
SpecFfiWatcher == VfsSpecInit /\ [][FfiWatcherNext]_vars

\* The MetadataStore alone, from an empty cache.
StoreInit ==
    /\ IndexInit /\ hasMtime
    /\ aw = AwIdle(NoFile)
    /\ VfsInit

SpecStore == StoreInit /\ [][StoreNext]_vars

\* Document::title on every Document of the bounded set.
NoteInit ==
    /\ IndexInit /\ hasMtime /\ fkOn
    /\ aw = AwIdle(NoFile)
    /\ fs = InitFs
    /\ vres = [op |-> "open", paths |-> <<>>, data |-> <<>>, err |-> "Ok"]
    /\ vops = 0
    /\ loc = NewLocation
    /\ qres = NoQuery
    /\ sx = SxOpen
    /\ wt = WtStart
    /\ ident = IdentStart
    /\ ms = MsOpen
    /\ note \in {[NoDocument EXCEPT !.doc = d] : d \in Documents}
    /\ ffi = FfiIdle

SpecNote == NoteInit /\ [][NoteNext]_vars

\* Location::new, open and init on one root.
SpecIdentity == VfsSpecInit /\ [][IdentityNext]_vars

\* The watcher and renames of the files it watches.
SpecRename == VfsSpecInit /\ [][RenameNext]_vars

\* ===================================================================
\* Properties of the Index
\* ===================================================================

IsRun(l) == l.op \in {"build_full", "update_incremental"}

InBothStoresAbsent(p) ==
    /\ p \notin DOMAIN files
    /\ p \notin DOMAIN metadata
    /\ p \notin DOMAIN committed

\* C1: once a build has completed, a path that an earlier completed build
\* indexed and that is no longer on disk has no FileEntry, no FileMetadata
\* and no search document.
C1_StaleAbsentFromBothStores ==
    (IsRun(last) /\ last.ok) =>
        \A p \in everIndexed \ DOMAIN disk : InBothStoresAbsent(p)

\* C2: after every successful build, a path has a committed search document
\* if and only if it has a FileEntry with indexed = true.
C2_SearchIffIndexed ==
    (IsRun(last) /\ last.ok) =>
        \A p \in Paths :
            (p \in DOMAIN committed) <=> (p \in DOMAIN files /\ files[p].indexed)

\* Documents staged in the writer and not committed.
Staged ==
    {p \in DOMAIN pending :
        writer = "some" /\ (p \notin DOMAIN committed \/ committed[p] # pending[p])}

SameDoc(p) ==
    /\ (p \in DOMAIN committed') <=> (p \in DOMAIN committed)
    /\ p \in DOMAIN committed => committed'[p] = committed[p]

\* C6: a run that returns an error leaves the visible documents as they
\* were, and a later successful run publishes no document left staged by a
\* failed run unless that run added the document itself.
C6_FailedRunRolledBack ==
    [][(runs' = runs + 1) =>
         /\ ~last'.ok => committed' = committed
         /\ last'.ok => \A p \in Staged \ last'.added : SameDoc(p)]_vars

\* build_full on a fresh cache over the current disk.
FreshBuildObs ==
    LET order == CHOOSE o \in Perms(managed_files) : TRUE
        st == run_files([files |-> EmptyMap, metadata |-> EmptyMap, pending |-> EmptyMap,
                         now |-> 0, added |-> {}, reindexed |-> {},
                         markdown_indexed |-> 0, metadata_updated |-> 0], order, FALSE)
    IN Obs(st.files, st.metadata, st.pending)

\* C7: build_full, one mutation of the disk, update_incremental leave the
\* observable state of build_full on a fresh cache over the mutated disk.
C7_IncrementalEquivalent ==
    chain = "incr" => Obs(files, metadata, committed) = FreshBuildObs

\* C8: build_full on a fresh cache observes the same state as the earlier
\* build_full on a fresh cache over the same disk content.
C8_RebuildIdempotent ==
    (last.op = "build_full" /\ last.ok /\ last.fresh /\ baseline.n > 0) =>
        Obs(files, metadata, committed) = baseline.obs

\* Two files on disk, a Markdown one among them, rebuilt twice from a
\* deleted cache.
C8_Witness ==
    /\ last.op = "build_full" /\ last.ok /\ last.fresh
    /\ baseline.n = 2
    /\ Cardinality(DOMAIN disk) = 2
    /\ document_count(committed) = 1

\* The freshness rule as stated: no FileEntry, or no on-disk mtime, or the
\* two mtimes more than the tolerance apart at tick resolution.
StatedNeedsUpdate(tbl, p) ==
    \/ p \notin DOMAIN tbl
    \/ ~hasMtime
    \/ Abs(disk[p].mtime - tbl[p].mtime) > MtimeToleranceSecs * TicksPerSecond

C9_AtomicWriteAllOrNothing ==
    /\ aw.pc = "ok" => aw.target = File(aw.data)
    /\ aw.pc = "failed" => (aw.err = "AtomicWriteFailed" /\ aw.target = aw.prev)
    /\ aw.pc \in {"start", "writing", "flushed", "synced"} => aw.target = aw.prev
    /\ aw.pc \in {"renamed", "crashed"} =>
           aw.target = (IF aw.renamed THEN File(aw.data) ELSE aw.prev)

\* A write over an existing file with other contents failed after part of the
\* data had reached the temp file.
C9_Witness ==
    /\ aw.pc = "failed" /\ aw.failStep = "writing"
    /\ aw.partial > 0 /\ aw.partial < Len(aw.data)
    /\ aw.prev.exists /\ aw.prev.bytes # aw.data


\* ===================================================================
\* Properties of the Location
\* ===================================================================

\* The path with every symlink on it replaced by its target, components
\* that do not exist kept as they are spelled.
RECURSIVE resolve_all(_, _, _, _)
resolve_all(f, cur, rest, fuel) ==
    IF rest = <<>> THEN cur
    ELSE LET c == Head(rest)
             t == Tail(rest)
             ch == Append(cur, c)
         IN  IF c = "." THEN resolve_all(f, cur, t, fuel)
             ELSE IF c = ".." THEN resolve_all(f, ParentNode(cur), t, fuel)
             ELSE IF ch \in DOMAIN f /\ f[ch].kind = "link" /\ fuel > 0
                  THEN resolve_all(f, <<>>, f[ch].target \o t, fuel - 1)
             ELSE resolve_all(f, ch, t, fuel)

Resolved(f, p) == resolve_all(f, <<>>, p, MaxLinkHops)

SystemDir == Append(root, FRACTA_DIR)

SystemTree(f) == Restrict(f, Subtree(f, SystemDir))

IsCrud(r) ==
    r.op \in {"create_file", "create_folder", "write_file", "rename", "move_entry",
              "delete_file", "delete_folder"}

\* C3: no CRUD call creates, changes or removes anything inside the system
\* directory, and a call on contained paths one of which resolves inside
\* the system directory fails with PermissionDenied.
C3_SystemDirNotWritable ==
    [][(vops' = vops + 1 /\ IsCrud(vres')) =>
         /\ SystemTree(fs') = SystemTree(fs)
         /\ (/\ \A i \in DOMAIN vres'.paths : contains(fs, vres'.paths[i])
             /\ \E i \in DOMAIN vres'.paths :
                    IsPrefix(SystemDir, Resolved(fs, vres'.paths[i])))
            => vres'.err = "PermissionDenied"]_vars

\* C4: a path that contains() accepts lies, with all symlinks resolved,
\* under the canonical root, and a CRUD call creates no node outside the
\* Location.
C4_ContainedResolvesUnderRoot ==
    [][/\ (vres'.op = "contains" /\ vres'.err = "true") =>
              IsPrefix(root, Resolved(fs', vres'.paths[1]))
       /\ (vops' = vops + 1 /\ IsCrud(vres')) =>
              \A n \in DOMAIN fs' \ DOMAIN fs : IsPrefix(root, n)]_vars


IsListing(q) == q.op \in {"list_directory", "walk"} /\ q.err = "Ok"

TrueRelative(f, p) == SubSeq(Resolved(f, p), Len(root) + 1, Len(Resolved(f, p)))

\* A contained path that lies under the root and outside the system
\* directory.
Ordinary(f, p) ==
    /\ contains(f, p)
    /\ IsPrefix(root, Resolved(f, p))
    /\ ~IsPrefix(SystemDir, Resolved(f, p))

Hits(docs, query) ==
    {[path |-> docs[p].path, title |-> docs[p].title] :
        p \in {x \in DOMAIN docs : docs[x].title = query \/ docs[x].content = query}}

\* C13: search and document_count observe the documents of the last commit
\* that returned Ok and nothing staged since; when commit returns Ok the
\* reader holds exactly what the calls staged before it produce.
C13_VisibleOnlyAfterCommit ==
    /\ sx.obs.op = "search" =>
           /\ Range(sx.obs.out[2]) = Hits(sx.visible, sx.obs.out[1])
           /\ Len(sx.obs.out[2]) = Cardinality(Hits(sx.visible, sx.obs.out[1]))
    /\ sx.obs.op = "document_count" =>
           sx.obs.out[1] = Cardinality(DOMAIN sx.visible)
    /\ (sx.obs.op = "commit" /\ sx.obs.err = "Ok") =>
           (sx.visible = sx.expected /\ sx.ops = <<>>)

\* A search after a commit that replaced one document and removed another,
\* with a further document staged and not committed.
C13_Witness ==
    /\ sx.obs.op = "search"
    /\ sx.ops # <<>>
    /\ sx.visible # EmptyMap
    /\ sx.obs.out[2] # <<>>
    /\ apply_calls(sx.expected, sx.calls) # sx.visible

\* C14: the committed index holds at most one document per path, and it is
\* the document of the last committed add_document for the path that no
\* committed remove_document followed.
C14_OneDocumentPerPath ==
    /\ \A i, j \in DOMAIN sx.segments :
           sx.segments[i].path = sx.segments[j].path => i = j
    /\ {sx.segments[i].path : i \in DOMAIN sx.segments} = DOMAIN sx.expected
    /\ \A i \in DOMAIN sx.segments :
           sx.segments[i] = sx.expected[sx.segments[i].path]

\* A commit has replaced the committed document of a path by one with other
\* contents.
C14_Witness ==
    /\ sx.obs.op = "commit" /\ sx.obs.err = "Ok"
    /\ \E i \in DOMAIN sx.obs.out, j \in DOMAIN sx.segments :
           /\ sx.obs.out[i].path = sx.segments[j].path
           /\ sx.obs.out[i].content # sx.segments[j].content


\* ===================================================================
\* Properties of the MetadataStore rows
\* ===================================================================

C19_NoInternalEventQueued ==
    \A i \in DOMAIN (wt.returned \o wt.queue) :
        \A k \in DOMAIN (wt.returned \o wt.queue)[i].path :
            (wt.returned \o wt.queue)[i].path[k] # FRACTA_DIR

\* Events inside the system directory, one of them deeper in the tree, were
\* reported and dropped while other events were queued and drained.
C19_Witness ==
    /\ wt.dropped = {<<"r", ".fracta", "s">>, <<"r", "d", ".fracta">>}
    /\ wt.returned # <<>>
    /\ wt.queue # <<>>

\* The events a drain_events call has taken out and not yet returned.
InFlight ==
    IF \E c \in Callers : wt.caller[c].pc = "cleared"
    THEN wt.caller[CHOOSE c \in Callers : wt.caller[c].pc = "cleared"].taken
    ELSE <<>>

\* C20: the events returned by the drain_events calls so far, then those a
\* call is about to return, then those in the queue are the events queued, in
\* the order queued; drain_events returns with the queue empty, and
\* has_pending_events leaves the queue as it is.
C20_EachEventDrainedOnce ==
    [][/\ wt'.returned \o InFlight' \o wt'.queue = wt'.pushed
       /\ \A c \in Callers :
              /\ (wt.caller[c].pc = "cleared" /\ wt'.caller[c].pc = "idle") =>
                     wt'.queue = <<>>
              /\ (wt.caller[c].op = "has_pending_events" /\ wt.caller[c].pc = "locked"
                  /\ wt'.caller[c].pc = "idle") =>
                     (wt'.queue = wt.queue /\ wt'.caller[c].got = <<wt.queue # <<>> >>)]_vars

\* Both caller threads have come back from drain_events with events.
C20_Witness ==
    /\ \A c \in Callers :
           /\ wt.caller[c].pc = "idle" /\ wt.caller[c].op = "drain_events"
           /\ wt.caller[c].got # <<>>
    /\ Len(wt.returned) >= 2


\* C21: once a stop() has returned, every drain_events that returns returns
\* no event and every has_pending_events returns false, whatever is queued
\* in the meantime, and the watcher stays stopped.
C21_StoppedForGood ==
    [][wt.stopped =>
         /\ wt'.stopped /\ wt'.inner = "None"
         /\ \A c \in Callers :
                (wt.caller[c].pc # "idle" /\ wt'.caller[c].pc = "idle") =>
                    /\ wt'.caller[c].op = "drain_events" => wt'.caller[c].got = <<>>
                    /\ wt'.caller[c].op = "has_pending_events" =>
                           wt'.caller[c].got = <<FALSE>>]_vars

\* After stop() events were queued, and drain_events and has_pending_events
\* were called and came back through the None arm.
C21_Witness ==
    /\ wt.stopped
    /\ wt.queue # <<>>
    /\ \E c, d \in Callers :
           /\ wt.caller[c].pc = "idle" /\ wt.caller[c].arm = "None"
           /\ wt.caller[c].op = "drain_events"
           /\ wt.caller[d].pc = "idle" /\ wt.caller[d].arm = "None"
           /\ wt.caller[d].op = "has_pending_events"

\* C22: when the last change was a rename from A to B and the callback has
\* gone through both of its reports, the last two events queued are
\* Deleted(A) and then Created(B).
C22_RenameIsDeletedThenCreated ==
    (wt.lastfs # <<>> /\ wt.seen = {} /\ Len(wt.pushed) >= 2) =>
        LET n == Len(wt.pushed)
        IN  /\ wt.pushed[n - 1].kind = "Deleted" /\ wt.pushed[n - 1].path = wt.lastfs[1]
            /\ wt.pushed[n].kind = "Created" /\ wt.pushed[n].path = wt.lastfs[2]


\* ===================================================================
\* Properties of the Location identity
\* ===================================================================

\* C23: once settings.json holds an identity, no init or open changes it,
\* and every open that succeeds returns it.
C23_IdentityStable ==
    [][ident.id # 0 =>
         /\ ident'.id = ident.id
         /\ (ident'.last.op = "open" /\ ident'.last.err = "Ok" /\ ident' # ident) =>
                ident'.last.id = ident.id]_vars


\* ===================================================================
\* Properties of the MetadataStore, call by call
\* ===================================================================

\* The step is a call of the store operation op.
StoreStep(op) == ms'.n = ms.n + 1 /\ ms'.obs.op = op

C25_UnparseableRowIsCorruptedData ==
    /\ (ms.obs.op = "get_file" /\ ms.obs.args[1] \in ms.unparseable) =>
           ms.obs.err = "CorruptedData"
    /\ (ms.obs.op = "list_directory"
        /\ \E p \in ms.unparseable :
               Len(p) = Len(ms.obs.args[1]) + 1
               /\ SubSeq(p, 1, Len(ms.obs.args[1])) = ms.obs.args[1]) =>
           ms.obs.err = "CorruptedData"

\* C27: with only tag = t, search_by_metadata returns the files whose
\* FileMetadata has t among its tags; with only area = a, the files whose
\* FileMetadata has area a.
C27_SearchByTagAndArea ==
    ms.obs.op = "search_by_metadata" =>
        LET area == ms.obs.args[1]
            tag  == ms.obs.args[2]
            both == (DOMAIN files) \cap (DOMAIN metadata)
        IN  /\ (area = <<>> /\ tag # <<>>) =>
                   ms.obs.out = {p \in both : tag[1] \in metadata[p].tags}
            /\ (area # <<>> /\ tag = <<>>) =>
                   ms.obs.out = {p \in both : metadata[p].area = area[1]}

\* C30: remove_stale_files(current_paths) leaves exactly the files rows whose
\* path is in current_paths, unchanged, leaves no metadata row of a deleted
\* path, and returns the number of files rows deleted.
C30_RemoveStaleIsSetDifference ==
    [][StoreStep("remove_stale_files") =>
         LET current == Range(ms'.obs.args[1])
             deleted == (DOMAIN files) \ current
         IN  /\ files' = Restrict(files, (DOMAIN files) \cap current)
             /\ \A p \in deleted : p \notin DOMAIN metadata'
             /\ ms'.obs.out = <<Cardinality(deleted)>>]_vars


\* ===================================================================
\* Properties of Location::create_file
\* ===================================================================

TopH1(doc) ==
    {i \in DOMAIN doc.blocks : doc.blocks[i].kind = "Heading" /\ doc.blocks[i].level = 1}

HasTitleString(doc) ==
    doc.front_matter # None /\ doc.front_matter[1].title.kind = "string"

\* C28: title() is the front-matter title when that is a string, else the
\* flattened text of the first top-level level-1 heading, else absent.
C28_TitlePrecedence ==
    note.called =>
        IF HasTitleString(note.doc)
        THEN note.title = Some(note.doc.front_matter[1].title.s)
        ELSE IF TopH1(note.doc) # {}
             THEN LET i == CHOOSE k \in TopH1(note.doc) : \A j \in TopH1(note.doc) : k <= j
                  IN  note.title = Some(inlines_to_text(note.doc.blocks[i].content))
        ELSE note.title = None

\* title() was called on a Document with a front-matter title string and a
\* level-1 heading after another block, and returned the front-matter title.
C28_Witness ==
    /\ note.called
    /\ HasTitleString(note.doc)
    /\ TopH1(note.doc) = {2}
    /\ note.title = Some(<<"F">>)


\* ===================================================================
\* Properties of the SearchIndex across a crash
\* ===================================================================

\* The documents of a list of stored documents, by path.
ByPath(docs) ==
    [p \in {docs[i].path : i \in DOMAIN docs} |->
        docs[CHOOSE i \in DOMAIN docs : docs[i].path = p]]

\* C29 as stated: after a crash the reopened index shows exactly the
\* documents of the last commit() that returned before the crash.
C29_ReopenShowsLastReturnedCommit ==
    sx.obs.op = "reopen" =>
        /\ ByPath(sx.reader) = sx.acked
        /\ Len(sx.reader) = Cardinality(DOMAIN sx.acked)

\* C29, amended: after a crash the reopened index shows exactly the documents
\* of the last commit() whose IndexWriter::commit had completed, whether or
\* not that commit() returned Ok; nothing staged since is there.
C29_ReopenShowsLastDurableCommit ==
    sx.obs.op = "reopen" =>
        /\ ByPath(sx.reader) = sx.expected
        /\ Len(sx.reader) = Cardinality(DOMAIN sx.expected)
        /\ sx.writer = "none" /\ sx.ops = <<>>

\* The index was reopened after a crash that discarded staged operations,
\* and it shows the documents of a commit() that did not return Ok.
C29_Witness ==
    /\ sx.obs.op = "reopen"
    /\ sx.obs.out # <<>>
    /\ sx.reader # <<>>
    /\ sx.expected # sx.acked


\* ===================================================================
\* Properties of update_incremental on files that pass the freshness check
\* ===================================================================

\* The FileEntry, the FileMetadata and the search document of p.
Kept(f, m, c, p) ==
    [entry    |-> IF p \in DOMAIN f THEN <<f[p]>> ELSE <<>>,
     metadata |-> IF p \in DOMAIN m THEN <<m[p]>> ELSE <<>>,
     doc      |-> IF p \in DOMAIN c THEN <<c[p]>> ELSE <<>>]

\* C31: a run of update_incremental leaves the FileEntry, the FileMetadata
\* and the search document of every walked file that passes the freshness
\* check as they were, and counts no such file in metadata_updated or
\* markdown_indexed.
C31_FreshFilesUntouched ==
    [][(runs' = runs + 1 /\ last'.op = "update_incremental") =>
          LET fresh == {p \in managed_files : ~needs_update(files, p)}
          IN /\ \A p \in fresh :
                   /\ Kept(files', metadata', committed', p)
                        = Kept(files, metadata, committed, p)
                   /\ p \notin last'.reindexed
             /\ last'.stats.metadata_updated
                  <= Cardinality(managed_files \ fresh)
             /\ last'.stats.markdown_indexed
                  <= Cardinality(managed_files \ fresh)]_vars


\* ===================================================================
\* Properties of walk
\* ===================================================================

\* The directory the walk starts from, symlinks resolved.
WalkBase(f, dir) == canonicalize(f, dir).at

\* The nodes below the start directory that a descent through directories
\* (never through a symlink, never into a record named .fracta) reaches.
Below(f, dir) ==
    LET base == WalkBase(f, dir)
    IN  {n \in DOMAIN f :
            /\ IsPrefix(base, n) /\ n # base
            /\ \A i \in (Len(base) + 1)..Len(n) : n[i] # FRACTA_DIR
            /\ \A i \in (Len(base) + 1)..(Len(n) - 1) : f[SubSeq(n, 1, i)].kind = "dir"}

\* How many levels below the start directory the node lies.
Level(f, dir, n) == Len(n) - Len(WalkBase(f, dir))

\* The nodes of Below within the depth limit.
Within(f, dir, max_depth) ==
    {n \in Below(f, dir) : max_depth = None \/ Level(f, dir, n) <= max_depth[1]}

\* The Entry of a node, its path spelled from the start directory.
EntryAt(f, l, dir, n) ==
    build_entry(f, l, dir \o SubSeq(n, Len(WalkBase(f, dir)) + 1, Len(n)), n)

\* The node lies under a folder of the walk whose scope is Ignored.
UnderIgnored(f, l, dir, n) ==
    \E m \in Below(f, dir) :
        /\ IsPrefix(m, n) /\ m # n
        /\ EntryAt(f, l, dir, m).scope = "Ignored"

\* C32: walk with include_ignored = false returns no Entry whose scope is
\* Ignored and no Entry under an Ignored folder; with include_ignored = true
\* it returns the Ignored entries and the contents of Ignored folders as
\* well, and those contents have scope Ignored.
C32_IgnoredOnlyWhenAsked ==
    (qres.op = "walk" /\ qres.err = "Ok") =>
        LET out == Range(qres.out)
            within == Within(fs, qres.path, qres.opts.max_depth)
        IN  IF ~qres.opts.include_ignored
            THEN /\ \A e \in out : e.scope # "Ignored"
                 /\ \A n \in within :
                        UnderIgnored(fs, loc, qres.path, n)
                            => EntryAt(fs, loc, qres.path, n) \notin out
            ELSE \A n \in within :
                    /\ EntryAt(fs, loc, qres.path, n) \in out
                    /\ UnderIgnored(fs, loc, qres.path, n)
                          => EntryAt(fs, loc, qres.path, n).scope = "Ignored"

\* A walk that left out the contents of an Ignored folder and returned
\* something else.
C32_Witness ==
    /\ qres.op = "walk" /\ qres.err = "Ok"
    /\ ~qres.opts.include_ignored
    /\ qres.out # <<>>
    /\ \E n \in Within(fs, qres.path, qres.opts.max_depth) :
           UnderIgnored(fs, loc, qres.path, n)


\* C33: walk on a start directory that does not exist returns NotFound for
\* every options value, and a start directory that cannot be read for a
\* reason other than permissions is an error returned to the caller.
C33_MissingRootIsNotFound ==
    (qres.op = "walk" /\ contains(fs, qres.path)) =>
        /\ ~exists(fs, qres.path) => qres.err = "NotFound"
        /\ (exists(fs, qres.path) /\ ~is_dir(fs, qres.path)) => qres.err # "Ok"


\* The nodes of the walk that the options leave out for being Ignored.
Skipped(f, l, dir, options, n) ==
    /\ ~options.include_ignored
    /\ \/ EntryAt(f, l, dir, n).scope = "Ignored"
       \/ UnderIgnored(f, l, dir, n)

\* C36: walk with max_depth = n returns, each once, exactly the entries not
\* skipped that lie at most n levels below the start directory, and with no
\* max_depth those of every level; a folder at the limit is returned, its
\* contents are not.
C36_DepthLimit ==
    (qres.op = "walk" /\ qres.err = "Ok") =>
        /\ Range(qres.out) =
              {EntryAt(fs, loc, qres.path, n) :
                  n \in {m \in Within(fs, qres.path, qres.opts.max_depth) :
                            ~Skipped(fs, loc, qres.path, qres.opts, m)}}
        /\ Len(qres.out) = Cardinality(Range(qres.out))

\* A walk with a depth limit that returned a folder at the limit and none
\* of what the folder holds.
C36_Witness ==
    /\ qres.op = "walk" /\ qres.err = "Ok"
    /\ qres.opts.max_depth # None
    /\ \E n \in Below(fs, qres.path) :
           /\ Level(fs, qres.path, n) = qres.opts.max_depth[1]
           /\ fs[n].kind = "dir"
           /\ EntryAt(fs, loc, qres.path, n) \in Range(qres.out)
           /\ \E m \in Below(fs, qres.path) :
                  /\ IsPrefix(n, m) /\ m # n
                  /\ ~Skipped(fs, loc, qres.path, qres.opts, m)
                  /\ EntryAt(fs, loc, qres.path, m) \notin Range(qres.out)


\* ===================================================================
\* Properties of IgnoreRules
\* ===================================================================

\* The rules that apply to a path taken as a directory or not, and match it.
Applying(rules, rel_path, dir) ==
    {k \in DOMAIN rules : (rules[k].dir_only => dir) /\ is_match(rules[k], rel_path)}

\* The last rule in file order that applies to the path and matches it is
\* there and is not negated.
LastRuleIgnores(rules, rel_path, dir) ==
    LET a == Applying(rules, rel_path, dir)
    IN  a # {} /\ ~rules[CHOOSE k \in a : \A j \in a : j <= k].negated

\* C35: is_ignored is true exactly when, for some prefix of the path (a
\* prefix shorter than the path taken as a directory), the last rule that
\* applies to the prefix and matches it is not negated; a path beneath an
\* ignored directory is ignored whatever the rules say of the path itself.
C35_LastMatchingRulePerPrefix ==
    qres.op = "is_ignored" =>
        LET rules == loc.ignore_rules
            cs == qres.path
            dir == qres.opts.is_dir
        IN  /\ qres.out[1] <=>
                   \E i \in 1..Len(cs) :
                       LastRuleIgnores(rules, SubSeq(cs, 1, i),
                                       IF i = Len(cs) THEN dir ELSE TRUE)
            /\ (\E i \in 1..(Len(cs) - 1) : is_ignored(rules, SubSeq(cs, 1, i), TRUE))
                   => qres.out[1]

\* A path beneath an ignored directory whose own last matching rule is
\* negated, and which is_ignored reports ignored.
C35_Witness ==
    /\ qres.op = "is_ignored"
    /\ Len(qres.path) = 2
    /\ qres.out[1]
    /\ LET a == Applying(loc.ignore_rules, qres.path, qres.opts.is_dir)
       IN  a # {} /\ loc.ignore_rules[CHOOSE k \in a : \A j \in a : j <= k].negated


\* ===================================================================
\* Properties of the BuildStats of build_full
\* ===================================================================

\* The Managed files on disk whose name ends in .md or .markdown and whose
\* content can be read.
ReadableMarkdown ==
    {p \in DOMAIN disk : p[2] \in {"md", "markdown"} /\ disk[p].readable}

\* C34: after a successful build_full files_scanned is the number of Managed
\* files of the walk, metadata_updated and file_count() equal it, and
\* indexed_count() equals markdown_indexed, the number of Managed Markdown
\* files that could be read.
C34_BuildStatsAgree ==
    (last.op = "build_full" /\ last.ok) =>
        /\ last.stats.files_scanned = Cardinality(DOMAIN disk)
        /\ last.stats.metadata_updated = last.stats.files_scanned
        /\ file_count(files) = last.stats.files_scanned
        /\ indexed_count(files) = last.stats.markdown_indexed
        /\ last.stats.markdown_indexed = Cardinality(ReadableMarkdown)

\* A successful build_full over a readable Markdown file and another file.
C34_Witness ==
    /\ last.op = "build_full" /\ last.ok
    /\ ReadableMarkdown # {}
    /\ DOMAIN disk \ ReadableMarkdown # {}


\* ===================================================================
\* Properties of MetadataStore.list_directory
\* ===================================================================

\* C37: list_directory(dir) returns exactly the FileEntries whose path is
\* dir, '/' and one more name (for the empty dir: the paths of one name),
\* whatever characters the directory name holds.
C37_ListDirectoryDirectChildren ==
    ms.obs.op = "list_directory" =>
        LET dir == ms.obs.args[1]
        IN  {e.path : e \in ms.obs.out} =
                {p \in DOMAIN files : Len(p) = Len(dir) + 1 /\ SubSeq(p, 1, Len(dir)) = dir}


\* ===================================================================
\* Properties of LocationSettings::load
\* ===================================================================

\* C38: open on a root whose settings.json is missing or does not parse
\* loads the default settings, so that, the save succeeding, it returns Ok
\* with an identity made for the occasion.
C38_CorruptSettingsOpenAfresh ==
    [][(/\ ident' # ident
        /\ ident'.last.op = "open"
        /\ ident.file \in {"absent", "invalid"}
        /\ ident'.last.err # "Io") =>
           /\ ident'.last.err = "Ok"
           /\ ident'.last.id = ident.next
           /\ ident'.id = ident.next]_vars


\* ===================================================================
\* Properties of the binding layer's locking
\* ===================================================================

\* The thread can take a step.
CanStep(t) ==
    \/ ffi.pc[t] = "body"
    \/ /\ ffi.pc[t] = "lock"
       /\ ffi.held[locks_of(ffi.op[t])[ffi.k[t] + 1]] = {}

\* C39: at most one thread at a time is inside each Location, Index and
\* Watcher object; the calls in progress never all wait for one another;
\* and a thread that holds the Index lock never waits for the Location lock.
C39_OneThreadPerObjectNoDeadlock ==
    /\ \A l \in Locks : Cardinality(ffi.held[l]) <= 1
    /\ \A l \in Locks :
           Cardinality({t \in Threads :
                           /\ ffi.pc[t] = "body"
                           /\ \E i \in DOMAIN locks_of(ffi.op[t]) :
                                  locks_of(ffi.op[t])[i] = l}) <= 1
    /\ (\E t \in Threads : ffi.pc[t] # "idle") => \E t \in Threads : CanStep(t)
    /\ \A t \in Threads :
           (ffi.pc[t] = "lock" /\ t \in ffi.held["index"])
               => locks_of(ffi.op[t])[ffi.k[t] + 1] # "location"

\* One thread runs a build holding both locks while another waits for the
\* Location lock it needs first.
C39_Witness ==
    \E t, u \in Threads :
        /\ ffi.pc[t] = "body" /\ ffi.op[t] \in {"build_full", "update_incremental"}
        /\ ffi.held["location"] = {t} /\ ffi.held["index"] = {t}
        /\ ffi.pc[u] = "lock" /\ ffi.op[u] \in {"build_full", "update_incremental"}


\* ===================================================================
\* Properties of the build after a build that stopped
\* ===================================================================

\* The FileEntries with indexed = true that have no search document.
IndexedWithoutDocument(f, c) == {p \in DOMAIN f : f[p].indexed /\ p \notin DOMAIN c}

\* C40: when a build has stopped, by an error or a crash, leaving FileEntries
\* with indexed = true whose documents were not committed, the next
\* update_incremental that completes, the disk unchanged in between, leaves
\* every FileEntry with indexed = true with a document in the SearchIndex.
C40_IndexedHaveDocumentAfterRecovery ==
    [][(/\ IsRun(last) /\ ~last.ok
        /\ IndexedWithoutDocument(files, committed) # {}
        /\ runs' = runs + 1
        /\ last'.op = "update_incremental" /\ last'.ok) =>
           IndexedWithoutDocument(files', committed') = {}]_vars

====
